---- MODULE Spec2Model ----
(***************************************************************************)
(* Model of the electrum client session layer: client.go (Client, req,    *)
(* syncRequest, startSubscription, removeSubscription, handleMessages,    *)
(* Close), subscription.go (NotifyBlockHeaders, NotifyAddressTransactions)*)
(* and the transport of network.go (listen, sendMessage, close).          *)
(*                                                                         *)
(* Every goroutine is a process with a program counter.  The client mutex *)
(* is `mu`: the short critical sections (req, the registration, remove-   *)
(* Subscription, the lookup by id) are single steps taken while the mutex *)
(* is free; only the fan-out of handleMessages blocks while holding it.   *)
(* Channels are unbuffered, so a send is a rendezvous step of the sender  *)
(* and the receiver.  A Go panic ends the process: `panicked` is set and   *)
(* no action is enabled afterwards.                                        *)
(***************************************************************************)
EXTENDS Integers, Sequences, FiniteSets, Bags, TLC

\* ------------------------------------------------------------------ bounds
NumCalls   == 2   \* goroutines that run one synchronous operation each
NumSubs    == 2   \* goroutines that run one Notify... subscription each
NumClosers == 2   \* invocations of Close()
MaxReads   == 2   \* lines / errors the transport reader takes off the stream
MaxTicks   == 1   \* keep-alive ticks
MaxWireId  == 2   \* largest id a frame sent by the server carries
SubsBesideCalls == 1   \* subscriptions in the specification of the callers
CallsBesideSubs == 1   \* callers in the specification of the subscriptions
MaxDials   == 2   \* dial attempts of the redial goroutine
MaxDrops   == 1   \* streams the server drops
MaxRedrops == 2   \* streams the server drops, with a resumption polling

Calls   == 1..NumCalls
SubIdx  == 1..NumSubs
Closers == 1..NumClosers

\* The two subscription methods of subscription.go.
HeadersMethod == "blockchain.headers.subscribe"
AddressMethod == "blockchain.address.subscribe"
Methods == {HeadersMethod, AddressMethod}

NoId == -1
\* The connection states of the reconnecting transport.
Ready        == "READY"
Disconnected == "DISCONNECTED"
Reconnecting == "RECONNECTING"
Reconnected  == "RECONNECTED"
ClosedState  == "CLOSED"
ConnectionState == {Ready, Disconnected, Reconnecting, Reconnected, ClosedState}

\* sendMessage on a transport that is not ready.
ErrUnreachableHost == "UNREACHABLE_HOST"

\* No sendMessage has been made.
NoSend == [state |-> "", result |-> ""]

\* The protocol tags of client.go.
Protocol10 == "1.0"
Protocol11 == "1.1"
Protocol12 == "1.2"
Protocols  == {Protocol10, Protocol11, Protocol12}

\* The common errors of client.go.
ErrDeprecatedMethod  == "DEPRECATED_METHOD"
ErrUnavailableMethod == "UNAVAILABLE_METHOD"

\* The exported operations of the client, by the shape of their code.
DeprecatedOps == {"UTXOAddress", "BlockChunk", "NotifyBlockNums"}
CheckedOps ==
    {"ServerVersion", "ServerBanner", "ServerDonationAddress", "ServerPeers",
     "AddressBalance", "AddressHistory", "AddressMempool", "AddressListUnspent",
     "BlockHeader", "BroadcastTransaction", "GetTransaction", "EstimateFee",
     "TransactionMerkle"}
Operations == {"ServerPing", "ServerFeatures"} \cup CheckedOps \cup DeprecatedOps

\* The nil *response.
Nil  == [id |-> NoId, method |-> "nil"]

\* handleMessages routes no frame.
NoFrame == [id |-> NoId, method |-> "nil", n |-> 0]

\* A destination is the `messages` channel of a table entry: the `res`
\* channel of one syncRequest, or the `messages` channel of one subscription.
CallDest(c) == [kind |-> "call", idx |-> c]
SubDest(s)  == [kind |-> "sub", idx |-> s]

VARIABLES
    counter,     \* Client.counter
    issued,      \* history: the ids returned by req(), in allocation order
    subs,        \* Client.subs: id -> [dest, method]
    mu,          \* Client.Mutex: "free" or "dispatch" (held by the fan-out)
    cdone,       \* Client.done is closed
    pingStopped, \* Client.ping.Stop() has been called
    nticks,      \* keep-alive ticks taken
    kpc,         \* keep-alive goroutine: position
    panicked,    \* "" or the reason of the Go panic that ended the process
    clpc,        \* Close(): position of each invocation
    outAtClose,  \* history: the callers blocked in `<-res` when Close() was invoked
    cpc,         \* syncRequest: position of each caller
    callId,      \* syncRequest: req.Id of each caller
    cret,        \* syncRequest: the (response, error) pair returned
    resClosed,   \* syncRequest: the `res` channel is closed
    spc,         \* Notify.../startSubscription: position of each subscriber
    subId,       \* startSubscription: req.Id
    smethod,     \* subscription.method
    lp,          \* delivery loop of startSubscription: position
    ctxDone,     \* subscription.ctx is canceled
    msgClosed,   \* subscription.messages is closed
    dataClosed,  \* the data channel handed to the caller is closed
    sret,        \* Notify...: the error returned
    lateHandler, \* history: handler invoked after the subscription's teardown
    dpc,         \* handleMessages: position
    dframe,      \* handleMessages: resp, the decoded frame being routed
    dtodo,       \* handleMessages: entries of the range loop not yet visited
    dtarget,     \* handleMessages: entry whose channel the loop is sending on
    delivered,   \* history: the bag of [n, frame, dest], one per completed send of
                 \* the n-th line read to the channel of dest
    tdone,       \* transport.done is closed
    rd,          \* transport.listen: "run", or "stopped" with the connection closed
    eof,         \* the stream has reached end-of-file
    nreads,      \* lines / errors read off the stream
    protocol,    \* Client.Protocol
    opc,         \* exported operation: position of each caller
    opName,      \* exported operation: the method of the client invoked
    opReply,     \* exported operation: what syncRequest handed back
    opErr,       \* exported operation: the error returned to the caller
    ready,       \* reconnecting transport: t.ready
    connOpen,    \* reconnecting transport: t.conn has not been closed by the client
    stream,      \* the server's end of t.conn: "live", or "eof" once it is dropped
    lpc,         \* reconnecting transport: position of the listen goroutine
    rpc,         \* reconnecting transport: position of the redial goroutine
    ndials,      \* dial attempts of the redial goroutine
    ndrops,      \* streams the server has dropped
    nlines,      \* lines / errors other than end-of-file read off the streams
    log,         \* history: what the dispatch loop received from the transport
    lastSend,    \* history: the last sendMessage, [state, result]
    rsm,         \* resumption of the subscriptions: position of the task
    rtodo,       \* resumption: the subscriptions still to be registered again
    rcur,        \* resumption: the subscription being registered again
    srv,         \* the subscriptions the server holds for the live stream
    rtasks,      \* resumption: the attempts in flight
    wire         \* history: the line the dispatch loop received last

sessionVars == <<counter, issued, subs, mu, cdone, pingStopped, nticks, kpc, panicked,
          clpc, outAtClose, cpc, callId, cret, resClosed, spc, subId, smethod, lp,
          ctxDone, msgClosed, dataClosed, sret, lateHandler, dpc, dframe,
          dtodo, dtarget, delivered, tdone, rd, eof, nreads>>

opVars  == <<protocol, opc, opName, opReply, opErr>>
connVars == <<ready, connOpen, stream, lpc, rpc, ndials, ndrops, nlines, log,
              lastSend>>
resVars == <<rsm, rtodo, rcur, srv, rtasks>>
histVars == <<wire>>
extVars == <<opVars, connVars, resVars, histVars>>
vars    == <<sessionVars, extVars>>

clientVars == <<counter, issued, subs, mu, cdone, pingStopped, nticks, kpc>>
closeVars  == <<clpc, outAtClose>>
callVars   == <<cpc, callId, cret, resClosed>>
subVars    == <<spc, subId, smethod, sret, dataClosed>>
loopVars   == <<lp, ctxDone, msgClosed, lateHandler>>
dispVars   == <<dpc, dframe, dtodo, dtarget, delivered>>
transVars  == <<tdone, rd, eof, nreads>>

\* ------------------------------------------------------------ wire frames
\* A line read off the stream: undecodable (ok = FALSE), or a JSON object
\* that may or may not carry an "id" member and a "method" member.
WireFrames ==
    {[ok |-> FALSE, hasId |-> FALSE, id |-> 0, method |-> ""]}
    \cup {[ok |-> TRUE, hasId |-> TRUE, id |-> i, method |-> ""] :
             i \in 0..MaxWireId}
    \cup {[ok |-> TRUE, hasId |-> TRUE, id |-> 0, method |-> m] : m \in Methods}
    \cup {[ok |-> TRUE, hasId |-> FALSE, id |-> 0, method |-> m] :
             m \in Methods \cup {""}}

\* No line has been received.
NoWire == [ok |-> FALSE, hasId |-> FALSE, id |-> 0, method |-> ""]

\* A dispatch loop that takes every line for a decoded frame.
UndecodableNever(w) == FALSE

\* json.Unmarshal(m, resp) returns an error.
Undecodable(w) == ~w.ok

\* json.Unmarshal(m, resp) into response{Id int; Method string}: a member
\* that is absent leaves the zero value of its field.
Decode(w) == [id |-> IF w.hasId THEN w.id ELSE 0, method |-> w.method]

\* --------------------------------------------------------------- helpers
\* A counter that req() reads but does not advance.
NextCounterStuck(n) == n

\* c.counter++ of req().
NextCounter(n) == n + 1

\* A removal that leaves the entry in the table.
RemovedNothing(tbl, id) == tbl

\* delete(c.subs, id)
Removed(tbl, id) == [i \in DOMAIN tbl \ {id} |-> tbl[i]]

\* c.subs[id] = entry
Registered(tbl, id, entry) ==
    [i \in DOMAIN tbl \cup {id} |-> IF i = id THEN entry ELSE tbl[i]]

\* A push branch that stops at the first entry whose method matches.
PushTargetsFirst(tbl, m) ==
    LET M == {i \in DOMAIN tbl : tbl[i].method = m}
    IN IF M = {} THEN {} ELSE {CHOOSE i \in M : \A j \in M : i <= j}

\* The range loop of the push branch: the entries whose method equals the
\* method of the frame.
PushTargets(tbl, m) == {i \in DOMAIN tbl : tbl[i].method = m}

\* The entries that `for i := range c.subs` of the shutdown branch produces,
\* and the table after removeSubscription has run on each.
SweepTargets(tbl) == DOMAIN tbl
SweptTable(tbl) == [i \in DOMAIN tbl \ SweepTargets(tbl) |-> tbl[i]]

\* A lookup that ignores the id of the frame and takes the oldest entry.
IdTargetsOldest(tbl, id) ==
    IF DOMAIN tbl = {} THEN {}
    ELSE {CHOOSE i \in DOMAIN tbl : \A j \in DOMAIN tbl : i <= j}

\* The lookup of the id branch: sub, ok := c.subs[resp.Id]
IdTargets(tbl, id) == IF id \in DOMAIN tbl THEN {id} ELSE {}

\* The channel of a destination is closed.
Closed(d) == IF d.kind = "call" THEN resClosed[d.idx] ELSE msgClosed[d.idx]

\* A receiver that takes the next frame whatever it is doing.
CanReceiveAlways(d) == TRUE

\* A goroutine is blocked receiving on the channel of the destination:
\* `<-res` of syncRequest, or the select of the delivery loop.
CanReceive(d) ==
    IF d.kind = "call" THEN cpc[d.idx] = "waiting" ELSE lp[d.idx] = "select"

\* transport.sendMessage on the connection as it is: the write fails once
\* listen() has closed the connection.
SendResult == IF rd = "stopped" THEN "err" ELSE "ok"

\* --------------------------------------------------------------- initial
InitSession ==
    /\ counter = 0
    /\ issued = <<>>
    /\ subs = <<>>
    /\ mu = "free"
    /\ cdone = FALSE
    /\ pingStopped = FALSE
    /\ nticks = 0
    /\ kpc = "wait"
    /\ panicked = ""
    /\ clpc = [k \in Closers |-> "idle"]
    /\ outAtClose = {}
    /\ cpc = [c \in Calls |-> "idle"]
    /\ callId = [c \in Calls |-> NoId]
    /\ cret = [c \in Calls |-> [resp |-> Nil, err |-> "none"]]
    /\ resClosed = [c \in Calls |-> FALSE]
    /\ spc = [s \in SubIdx |-> "idle"]
    /\ subId = [s \in SubIdx |-> NoId]
    /\ smethod = [s \in SubIdx |-> ""]
    /\ lp = [s \in SubIdx |-> "none"]
    /\ ctxDone = [s \in SubIdx |-> FALSE]
    /\ msgClosed = [s \in SubIdx |-> FALSE]
    /\ dataClosed = [s \in SubIdx |-> FALSE]
    /\ sret = [s \in SubIdx |-> "none"]
    /\ lateHandler = [s \in SubIdx |-> FALSE]
    /\ dpc = "select"
    /\ dframe = NoFrame
    /\ dtodo = {}
    /\ dtarget = CallDest(0)
    /\ delivered = EmptyBag
    /\ tdone = FALSE
    /\ rd = "run"
    /\ eof = FALSE
    /\ nreads = 0

\* No exported operation has been invoked.
InitOps ==
    /\ opc = [c \in Calls |-> "idle"]
    /\ opName = [c \in Calls |-> ""]
    /\ opReply = [c \in Calls |-> "none"]
    /\ opErr = [c \in Calls |-> "none"]

\* No resumption is in flight and the server holds no subscription.
InitResume ==
    /\ rsm = "none"
    /\ rtodo = {}
    /\ rcur = 0
    /\ srv = {}
    /\ rtasks = 0

\* getTransport of the reconnecting transport: setup(conn), then go t.listen().
InitConn ==
    /\ ready = TRUE
    /\ connOpen = TRUE
    /\ stream = "live"
    /\ lpc = "ready"
    /\ rpc = "none"
    /\ ndials = 0
    /\ ndrops = 0
    /\ nlines = 0
    /\ log = <<>>
    /\ lastSend = NoSend

\* New(options) with options.Protocol left empty: the latest protocol.
Init ==
    /\ InitSession
    /\ protocol = Protocol12
    /\ InitOps
    /\ InitConn
    /\ InitResume
    /\ wire = NoWire

\* A Go panic that no goroutine recovers ends the process: the goroutines and
\* the client are gone, and only the reason of the panic is left.
Crash(reason) ==
    /\ panicked' = reason
    /\ counter' = 0
    /\ issued' = <<>>
    /\ subs' = <<>>
    /\ mu' = "free"
    /\ cdone' = FALSE
    /\ pingStopped' = FALSE
    /\ nticks' = 0
    /\ kpc' = "wait"
    /\ clpc' = [k \in Closers |-> "idle"]
    /\ outAtClose' = {}
    /\ cpc' = [c \in Calls |-> "idle"]
    /\ callId' = [c \in Calls |-> NoId]
    /\ cret' = [c \in Calls |-> [resp |-> Nil, err |-> "none"]]
    /\ resClosed' = [c \in Calls |-> FALSE]
    /\ spc' = [s \in SubIdx |-> "idle"]
    /\ subId' = [s \in SubIdx |-> NoId]
    /\ smethod' = [s \in SubIdx |-> ""]
    /\ lp' = [s \in SubIdx |-> "none"]
    /\ ctxDone' = [s \in SubIdx |-> FALSE]
    /\ msgClosed' = [s \in SubIdx |-> FALSE]
    /\ dataClosed' = [s \in SubIdx |-> FALSE]
    /\ sret' = [s \in SubIdx |-> "none"]
    /\ lateHandler' = [s \in SubIdx |-> FALSE]
    /\ dpc' = "select"
    /\ dframe' = NoFrame
    /\ dtodo' = {}
    /\ dtarget' = CallDest(0)
    /\ delivered' = EmptyBag
    /\ tdone' = FALSE
    /\ rd' = "run"
    /\ eof' = FALSE
    /\ nreads' = 0

\* ---------------------------------------------------- shared fragments
\* removeSubscription(id): close the channel of the entry and delete it; a
\* no-op on an absent id.
RemoveSubscription(id) ==
    IF id \in DOMAIN subs
    THEN LET d == subs[id].dest IN
         /\ subs' = Removed(subs, id)
         /\ resClosed' = [c \in Calls |-> resClosed[c] \/ d = CallDest(c)]
         /\ msgClosed' = [s \in SubIdx |-> msgClosed[s] \/ d = SubDest(s)]
    ELSE UNCHANGED <<subs, resClosed, msgClosed>>

\* req(): under the mutex, take the counter as the id and increment it.
Req ==
    /\ mu = "free"
    /\ counter' = NextCounter(counter)
    /\ issued' = Append(issued, counter)

\* sub.messages <- resp completes: the receiver takes the frame.  A caller
\* leaves `<-res` with the reply; a delivery loop invokes the handler, which
\* blocks sending the decoded item on the data channel.
DeliverTo(d, f) ==
    /\ delivered' = delivered (+) SetToBag(
           {[n |-> f.n, frame |-> [id |-> f.id, method |-> f.method], dest |-> d]})
    /\ IF d.kind = "call"
       THEN /\ cpc' = [cpc EXCEPT ![d.idx] = "unreg"]
            /\ cret' = [cret EXCEPT ![d.idx] =
                   [resp |-> [id |-> f.id, method |-> f.method], err |-> "nil"]]
            /\ UNCHANGED <<lp, lateHandler>>
       ELSE /\ lp' = [lp EXCEPT ![d.idx] = "handler"]
            /\ lateHandler' = [lateHandler EXCEPT
                   ![d.idx] = @ \/ ctxDone[d.idx] \/ msgClosed[d.idx]]
            /\ UNCHANGED <<cpc, cret>>

\* ------------------------------------------------------- syncRequest
\* The callers are interchangeable, and so are the subscribers, the two
\* methods and the invocations of Close: each kind is numbered in the order
\* in which it starts, and the first subscription is the one for headers.
InOrder(pcs, i) == IF i = 1 THEN TRUE ELSE pcs[i - 1] # "idle"

\* c.req(...), the argument of syncRequest.
CallReq(c) ==
    /\ cpc[c] = "idle"
    /\ InOrder(cpc, c)
    /\ Req
    /\ callId' = [callId EXCEPT ![c] = counter]
    /\ cpc' = [cpc EXCEPT ![c] = "hasId"]
    /\ UNCHANGED <<subs, mu, cdone, pingStopped, nticks, kpc, panicked, cret,
                   resClosed, closeVars, subVars, loopVars, dispVars, transVars>>

\* c.subs[req.Id] = &subscription{messages: res}
CallRegister(c) ==
    /\ cpc[c] = "hasId"
    /\ mu = "free"
    /\ subs' = Registered(subs, callId[c], [dest |-> CallDest(c), method |-> ""])
    /\ cpc' = [cpc EXCEPT ![c] = "registered"]
    /\ UNCHANGED <<counter, issued, mu, cdone, pingStopped, nticks, kpc, panicked,
                   callId, cret, resClosed, closeVars, subVars, loopVars,
                   dpc, dframe, dtodo, dtarget, delivered, transVars>>

\* req.encode() and c.transport.sendMessage(b): on an error return it.
CallSend(c) ==
    /\ cpc[c] = "registered"
    /\ IF SendResult = "ok"
       THEN /\ cpc' = [cpc EXCEPT ![c] = "waiting"]
            /\ UNCHANGED cret
       ELSE /\ cpc' = [cpc EXCEPT ![c] = "unreg"]
            /\ cret' = [cret EXCEPT ![c] = [resp |-> Nil, err |-> "send"]]
    /\ UNCHANGED <<clientVars, panicked, callId, resClosed, closeVars, subVars,
                   loopVars, dispVars, transVars>>

\* The same with a write that fails on an open connection.
CallSendWriteError(c) ==
    /\ cpc[c] = "registered"
    /\ rd = "run"
    /\ cpc' = [cpc EXCEPT ![c] = "unreg"]
    /\ cret' = [cret EXCEPT ![c] = [resp |-> Nil, err |-> "send"]]
    /\ UNCHANGED <<clientVars, panicked, callId, resClosed, closeVars, subVars,
                   loopVars, dispVars, transVars>>

\* return <-res, nil: the receive on a closed channel yields nil.
CallRecvClosed(c) ==
    /\ cpc[c] = "waiting"
    /\ resClosed[c]
    /\ cpc' = [cpc EXCEPT ![c] = "unreg"]
    /\ cret' = [cret EXCEPT ![c] = [resp |-> Nil, err |-> "nil"]]
    /\ UNCHANGED <<clientVars, panicked, callId, resClosed, closeVars, subVars,
                   loopVars, dispVars, transVars>>

\* defer c.removeSubscription(req.Id), then the return.
CallUnregister(c) ==
    /\ cpc[c] = "unreg"
    /\ mu = "free"
    /\ RemoveSubscription(callId[c])
    /\ cpc' = [cpc EXCEPT ![c] = "returned"]
    /\ UNCHANGED <<panicked, counter, issued, mu, cdone, pingStopped, nticks, kpc, callId,
                   cret, closeVars, subVars, lp, ctxDone, lateHandler,
                   dispVars, transVars>>

\* ------------------------------------------- Notify... / startSubscription
\* Notify... builds the subscription; startSubscription starts the delivery
\* loop and calls c.req(sub.method, sub.params...).
SubStart(s, m) ==
    /\ spc[s] = "idle"
    /\ InOrder(spc, s)
    /\ s = 1 => m = HeadersMethod
    /\ Req
    /\ smethod' = [smethod EXCEPT ![s] = m]
    /\ subId' = [subId EXCEPT ![s] = counter]
    /\ lp' = [lp EXCEPT ![s] = "select"]
    /\ spc' = [spc EXCEPT ![s] = "hasId"]
    /\ UNCHANGED <<subs, mu, cdone, pingStopped, nticks, kpc, panicked, closeVars,
                   callVars, sret, dataClosed, ctxDone, msgClosed, lateHandler,
                   dispVars, transVars>>

\* c.subs[req.Id] = sub
SubRegister(s) ==
    /\ spc[s] = "hasId"
    /\ mu = "free"
    /\ subs' = Registered(subs, subId[s], [dest |-> SubDest(s), method |-> smethod[s]])
    /\ spc' = [spc EXCEPT ![s] = "registered"]
    /\ UNCHANGED <<counter, issued, mu, cdone, pingStopped, nticks, kpc, panicked,
                   closeVars, callVars, subId, smethod, sret, dataClosed,
                   loopVars, dpc, dframe, dtodo, dtarget, delivered,
                   transVars>>

\* req.encode() and c.transport.sendMessage(b); without an error
\* startSubscription returns nil and Notify... returns the data channel.
SubSend(s) ==
    /\ spc[s] = "registered"
    /\ IF SendResult = "ok"
       THEN /\ spc' = [spc EXCEPT ![s] = "active"]
            /\ sret' = [sret EXCEPT ![s] = "nil"]
       ELSE /\ spc' = [spc EXCEPT ![s] = "failrm"]
            /\ UNCHANGED sret
    /\ UNCHANGED <<clientVars, panicked, closeVars, callVars, subId, smethod,
                   dataClosed, loopVars, dispVars, transVars>>

\* The same with a write that fails on an open connection.
SubSendWriteError(s) ==
    /\ spc[s] = "registered"
    /\ rd = "run"
    /\ spc' = [spc EXCEPT ![s] = "failrm"]
    /\ UNCHANGED <<clientVars, panicked, closeVars, callVars, subId, smethod,
                   sret, dataClosed, loopVars, dispVars, transVars>>

\* The error path of startSubscription: c.removeSubscription(req.Id); return err
SubFailRemove(s) ==
    /\ spc[s] = "failrm"
    /\ mu = "free"
    /\ RemoveSubscription(subId[s])
    /\ spc' = [spc EXCEPT ![s] = "failclose"]
    /\ UNCHANGED <<panicked, counter, issued, mu, cdone, pingStopped, nticks, kpc, closeVars,
                   cpc, callId, cret, subId, smethod, sret, dataClosed, lp,
                   ctxDone, lateHandler, dispVars, transVars>>

\* The error path of Notify...: close(headers); return nil, err.  A handler
\* blocked sending on the data channel panics when the channel is closed.
SubFailClose(s) ==
    /\ spc[s] = "failclose"
    /\ IF lp[s] = "handler"
       THEN Crash("send on closed channel")
       ELSE /\ dataClosed' = [dataClosed EXCEPT ![s] = TRUE]
            /\ sret' = [sret EXCEPT ![s] = "send"]
            /\ spc' = [spc EXCEPT ![s] = "failed"]
            /\ UNCHANGED <<clientVars, panicked, closeVars, callVars, subId,
                           smethod, loopVars, dispVars, transVars>>

\* ---------------------------------------- delivery loop of a subscription
\* case msg, ok := <-sub.messages with ok false: return
LoopClosed(s) ==
    /\ lp[s] = "select"
    /\ msgClosed[s]
    /\ lp' = [lp EXCEPT ![s] = "exit"]
    /\ UNCHANGED <<clientVars, panicked, closeVars, callVars, subVars, ctxDone,
                   msgClosed, lateHandler, dispVars, transVars>>

\* case <-sub.ctx.Done(): return
LoopCtxDone(s) ==
    /\ lp[s] = "select"
    /\ ctxDone[s]
    /\ lp' = [lp EXCEPT ![s] = "exit"]
    /\ UNCHANGED <<clientVars, panicked, closeVars, callVars, subVars, ctxDone,
                   msgClosed, lateHandler, dispVars, transVars>>

\* sub.handler(msg) returns: the consumer has taken the item off the data
\* channel.
HandlerDone(s) ==
    /\ lp[s] = "handler"
    /\ lp' = [lp EXCEPT ![s] = "select"]
    /\ UNCHANGED <<clientVars, panicked, closeVars, callVars, subVars, ctxDone,
                   msgClosed, lateHandler, dispVars, transVars>>

\* The caller cancels the context of a subscription that Notify... returned.
Cancel(s) ==
    /\ spc[s] = "active"
    /\ ~ctxDone[s]
    /\ ctxDone' = [ctxDone EXCEPT ![s] = TRUE]
    /\ UNCHANGED <<clientVars, panicked, closeVars, callVars, subVars, lp,
                   msgClosed, lateHandler, dispVars, transVars>>

\* ------------------------------------------------------- handleMessages
BackToSelect ==
    /\ dpc' = "select"
    /\ dframe' = NoFrame
    /\ dtodo' = {}
    /\ dtarget' = CallDest(0)

\* case <-c.done: stop the ticker, run removeSubscription on every entry
\* that the range loop over c.subs produces, and return.  Each removal is a
\* critical section of its own and touches one entry only, so the removals
\* are taken together; an entry created later is one the range loop skipped.
DispDone ==
    /\ dpc = "select"
    /\ cdone
    /\ mu = "free"
    /\ pingStopped' = TRUE
    /\ subs' = SweptTable(subs)
    /\ resClosed' = [c \in Calls |->
           resClosed[c] \/ \E i \in SweepTargets(subs) : subs[i].dest = CallDest(c)]
    /\ msgClosed' = [s \in SubIdx |->
           msgClosed[s] \/ \E i \in SweepTargets(subs) : subs[i].dest = SubDest(s)]
    /\ dpc' = "exited"
    /\ UNCHANGED <<counter, issued, mu, cdone, nticks, kpc, panicked,
                   closeVars, cpc, callId, cret, subVars, lp, ctxDone,
                   lateHandler, dframe, dtodo, dtarget, delivered, transVars>>

\* case err := <-c.transport.errors: log it.  listen() offers the error that
\* ReadBytes returned; end-of-file is returned again by every later read, and
\* receiving any other error (or end-of-file once more) changes no state.
DispError ==
    /\ dpc = "select"
    /\ rd = "run"
    /\ ~eof
    /\ nreads < MaxReads
    /\ eof' = TRUE
    /\ nreads' = nreads + 1
    /\ UNCHANGED <<clientVars, panicked, closeVars, callVars, subVars, loopVars,
                   dispVars, tdone, rd>>

\* case m := <-c.transport.messages: listen() offers the line that ReadBytes
\* returned (what it holds is the server's choice); decode and route it.  A
\* frame that does not decode is skipped.  A frame with a method takes the mutex and starts the
\* range loop over the entries with that method; any other frame is looked up
\* by its id under the mutex and sent after the unlock.
DispMessageOf(w) ==
    /\ dpc = "select"
    /\ rd = "run"
    /\ ~eof
    /\ nreads < MaxReads
    /\ mu = "free"
    /\ nreads' = nreads + 1
    /\ IF Undecodable(w)
       THEN UNCHANGED <<mu, dispVars>>
       ELSE LET f == Decode(w)
                T == IF f.method # "" THEN PushTargets(subs, f.method)
                                      ELSE IdTargets(subs, f.id)
            IN /\ UNCHANGED delivered
               /\ IF T = {}
                  THEN UNCHANGED <<mu, dpc, dframe, dtodo, dtarget>>
                  ELSE \E i \in T :
                         /\ dframe' = [id |-> f.id, method |-> f.method, n |-> nreads']
                         /\ dtarget' = subs[i].dest
                         /\ IF f.method # ""
                            THEN /\ dpc' = "fanout"
                                 /\ mu' = "dispatch"
                                 /\ dtodo' = T \ {i}
                            ELSE /\ dpc' = "idsend"
                                 /\ dtodo' = {}
                                 /\ UNCHANGED mu
    /\ UNCHANGED <<counter, issued, subs, cdone, pingStopped, nticks, kpc,
                   panicked, closeVars, callVars, subVars, loopVars, tdone,
                   rd, eof>>

DispMessage == \E w \in WireFrames : DispMessageOf(w)

\* sub.messages <- resp of the range loop completes; the loop goes on to the
\* next matching entry, or unlocks after the last one.
FanoutDeliver ==
    /\ dpc = "fanout"
    /\ ~Closed(dtarget)
    /\ CanReceive(dtarget)
    /\ DeliverTo(dtarget, dframe)
    /\ IF dtodo = {}
       THEN /\ BackToSelect
            /\ mu' = "free"
       ELSE /\ \E i \in dtodo :
                 /\ dtarget' = subs[i].dest
                 /\ dtodo' = dtodo \ {i}
            /\ UNCHANGED <<dpc, dframe, mu>>
    /\ UNCHANGED <<counter, issued, subs, cdone, pingStopped, nticks, kpc,
                   panicked, closeVars, callId, resClosed, subVars, ctxDone,
                   msgClosed, transVars>>

\* sub.messages <- resp of the id branch completes.
IdDeliver ==
    /\ dpc = "idsend"
    /\ ~Closed(dtarget)
    /\ CanReceive(dtarget)
    /\ DeliverTo(dtarget, dframe)
    /\ BackToSelect
    /\ UNCHANGED <<clientVars, panicked, closeVars, callId, resClosed, subVars,
                   ctxDone, msgClosed, transVars>>

\* sub.messages <- resp on a channel that removeSubscription has closed.
DispSendPanic ==
    /\ dpc \in {"fanout", "idsend"}
    /\ Closed(dtarget)
    /\ Crash("send on closed channel")

\* ------------------------------------------------------------ keep-alive
\* for range client.ping.C: a tick is received.
KeepAliveTick ==
    /\ kpc = "wait"
    /\ ~pingStopped
    /\ nticks < MaxTicks
    /\ nticks' = nticks + 1
    /\ kpc' = "req"
    /\ UNCHANGED <<counter, issued, subs, mu, cdone, pingStopped, panicked,
                   closeVars, callVars, subVars, loopVars, dispVars, transVars>>

\* client.req(...), req.encode(), client.transport.sendMessage(b): the
\* result of the send is discarded.
KeepAliveSend ==
    /\ kpc = "req"
    /\ Req
    /\ kpc' = "wait"
    /\ UNCHANGED <<subs, mu, cdone, pingStopped, nticks, panicked, closeVars,
                   callVars, subVars, loopVars, dispVars, transVars>>

\* ----------------------------------------------------------------- Close
\* Close(): close(c.done), which panics on a closed channel, then
\* c.transport.close(), which is close(t.done).
Close(k) ==
    /\ clpc[k] = "idle"
    /\ InOrder(clpc, k)
    /\ IF cdone
       THEN Crash("close of closed channel")
       ELSE /\ cdone' = TRUE
            /\ tdone' = TRUE
            /\ clpc' = [clpc EXCEPT ![k] = "finished"]
            /\ outAtClose' = {c \in Calls : cpc[c] = "waiting"}
            /\ UNCHANGED <<counter, issued, subs, mu, pingStopped, nticks, kpc,
                           panicked, callVars, subVars, loopVars, dispVars, rd,
                           eof, nreads>>

\* ------------------------------------------------------ transport.listen
\* case <-t.done: t.conn.Close(); return
ListenStop ==
    /\ rd = "run"
    /\ tdone
    /\ rd' = "stopped"
    /\ UNCHANGED <<clientVars, panicked, closeVars, callVars, subVars, loopVars,
                   dispVars, tdone, eof, nreads>>

\* ---------------------------------------------------- exported operations
\* A ServerPing that is refused under protocol 1.0 only.
RejectionPing10(o, p) ==
    IF o \in DeprecatedOps THEN ErrDeprecatedMethod
    ELSE IF o = "ServerPing" /\ p = Protocol10 THEN ErrUnavailableMethod
    ELSE IF o = "ServerFeatures" /\ p = Protocol10 THEN ErrUnavailableMethod
    ELSE ""

\* A NotifyBlockNums without the early return of the deprecation.
RejectionNoNums(o, p) ==
    IF o \in DeprecatedOps \ {"NotifyBlockNums"} THEN ErrDeprecatedMethod
    ELSE IF o = "ServerPing" /\ p # Protocol12 THEN ErrUnavailableMethod
    ELSE IF o = "ServerFeatures" /\ p = Protocol10 THEN ErrUnavailableMethod
    ELSE ""

\* The error an exported operation returns before it builds a request, or ""
\* when it goes on to syncRequest: the deprecated methods return at once, and
\* ServerPing and ServerFeatures switch on c.Protocol.
Rejection(o, p) ==
    IF o \in DeprecatedOps THEN ErrDeprecatedMethod
    ELSE IF o = "ServerPing" /\ p # Protocol12 THEN ErrUnavailableMethod
    ELSE IF o = "ServerFeatures" /\ p = Protocol10 THEN ErrUnavailableMethod
    ELSE ""

\* What syncRequest handed back, as the operation sees it: an error ("send"),
\* a nil response with a nil error ("nil"), or a reply that does ("error") or
\* does not ("result") carry an error object.  Only the exported operation
\* reads the error member of a reply, so it is drawn where it is read.
Replies(ret) ==
    IF ret.err = "send" THEN {"send"}
    ELSE IF ret.resp = Nil THEN {"nil"}
    ELSE {"result", "error"}

\* The operation reads res.Error of a nil response.
Dereferences(o, r) == r = "nil" /\ o # "ServerPing"

\* The error the operation returns.  ServerPing returns the error of
\* syncRequest and drops the response.  ServerFeatures declares a second err
\* with := inside its default branch and assigns to that one; the err it
\* returns is never set.  Every other operation returns the error of
\* syncRequest, or errors.New(res.Error.Message) ("rpc").
Returned(o, r) ==
    IF o = "ServerPing" THEN (IF r = "send" THEN "send" ELSE "nil")
    ELSE IF o = "ServerFeatures" THEN "nil"
    ELSE IF r = "send" THEN "send"
    ELSE IF r = "error" THEN "rpc"
    ELSE "nil"

\* The caller invokes the exported operation o: it returns its rejection, or
\* evaluates c.req(...), the argument of syncRequest.
OpInvoke(c, o) ==
    /\ opc[c] = "idle"
    /\ InOrder(opc, c)
    /\ opName' = [opName EXCEPT ![c] = o]
    /\ IF Rejection(o, protocol) # ""
       THEN /\ opc' = [opc EXCEPT ![c] = "returned"]
            /\ opErr' = [opErr EXCEPT ![c] = Rejection(o, protocol)]
            /\ UNCHANGED <<protocol, opReply, sessionVars>>
       ELSE /\ opc' = [opc EXCEPT ![c] = "sync"]
            /\ CallReq(c)
            /\ UNCHANGED <<protocol, opReply, opErr>>

\* syncRequest has returned: the operation looks at err and at res.Error and
\* returns.  Reading res.Error of a nil response panics.
OpReturn(c) ==
    /\ opc[c] = "sync"
    /\ cpc[c] = "returned"
    /\ \E r \in Replies(cret[c]) :
          IF Dereferences(opName[c], r)
          THEN /\ Crash("nil pointer dereference")
               /\ opc' = [k \in Calls |-> "idle"]
               /\ opName' = [k \in Calls |-> ""]
               /\ opReply' = [k \in Calls |-> "none"]
               /\ opErr' = [k \in Calls |-> "none"]
               /\ UNCHANGED protocol
          ELSE /\ opc' = [opc EXCEPT ![c] = "returned"]
               /\ opReply' = [opReply EXCEPT ![c] = r]
               /\ opErr' = [opErr EXCEPT ![c] = Returned(opName[c], r)]
               /\ UNCHANGED <<protocol, opName, sessionVars>>

\* --------------------------------------------- the reconnecting transport
\* listen() going round its loop again once t.reconnect() has returned.
AfterReconnectLoop == "select"

\* The position of listen() once t.reconnect() has returned: break LOOP.
AfterReconnect == "none"

\* The state event a goroutine at the given position is sending on t.state.
Announces(pos) ==
    IF pos = "ready" THEN Ready
    ELSE IF pos = "disc" THEN Disconnected
    ELSE IF pos = "recon" THEN Reconnecting
    ELSE IF pos = "closed" THEN ClosedState
    ELSE ""

\* The last state event the dispatch loop has received.
LastState(l) ==
    LET S == {i \in 1..Len(l) : l[i] \in ConnectionState}
    IN IF S = {} THEN "" ELSE l[CHOOSE i \in S : \A j \in S : j <= i]

\* The one listener of the state events, the dispatch loop of the session, is
\* at its select.
StateListener == dpc = "select"

\* t.state <- Ready / Disconnected / Reconnecting / Closed in listen() and
\* reconnect(): the dispatch loop receives the event.  After Ready the loop
\* starts; after Disconnected the goroutine enters reconnect(); after
\* Reconnecting it starts the redial goroutine and leaves the loop; after
\* Closed it leaves the loop.
ListenAnnounce ==
    /\ Announces(lpc) # ""
    /\ StateListener
    /\ log' = Append(log, Announces(lpc))
    /\ lpc' = IF lpc = "ready" THEN "select"
              ELSE IF lpc = "disc" THEN "close"
              ELSE IF lpc = "recon" THEN AfterReconnect
              ELSE "none"
    /\ rpc' = IF lpc = "recon" THEN "tick" ELSE rpc
    /\ UNCHANGED <<ready, connOpen, stream, ndials, ndrops, nlines, lastSend>>

\* select: case <-t.done: t.conn.Close(), then t.state <- Closed.
ListenSelectDone ==
    /\ lpc = "select"
    /\ tdone
    /\ connOpen' = FALSE
    /\ lpc' = "closed"
    /\ UNCHANGED <<ready, stream, rpc, ndials, ndrops, nlines, log, lastSend>>

\* select: default, taken when no other case is ready: t.r.ReadBytes(delimiter)
ListenSelectDefault ==
    /\ lpc = "select"
    /\ ~tdone
    /\ lpc' = "read"
    /\ UNCHANGED <<ready, connOpen, stream, rpc, ndials, ndrops, nlines, log,
                   lastSend>>

\* ReadBytes returns a line, or an error other than io.EOF, that the server
\* or the network produced.
ListenReadInput ==
    /\ lpc = "read"
    /\ connOpen /\ stream = "live"
    /\ nlines < MaxReads
    /\ nlines' = nlines + 1
    /\ lpc' \in {"msg", "err"}
    /\ UNCHANGED <<ready, connOpen, stream, rpc, ndials, ndrops, log, lastSend>>

\* ReadBytes returns io.EOF on a dropped stream (the next step is
\* t.state <- Disconnected), and an error on a connection that is closed.
ListenReadFails ==
    /\ lpc = "read"
    /\ \/ connOpen /\ stream = "eof" /\ lpc' = "disc"
       \/ ~connOpen /\ lpc' = "err"
    /\ UNCHANGED <<ready, connOpen, stream, rpc, ndials, ndrops, nlines, log,
                   lastSend>>

\* A reader that treats every read error as the end of the stream.
AfterReadErrorAsEOF == "disc"

\* The position of listen() once t.errors <- err has completed: `break`
\* leaves the select, and the loop goes round again.
AfterReadError == "select"

\* t.messages <- line / t.errors <- err: the dispatch loop receives it.
ListenForward ==
    /\ lpc \in {"msg", "err"}
    /\ dpc = "select"
    /\ log' = Append(log, IF lpc = "msg" THEN "line" ELSE "error")
    /\ lpc' = IF lpc = "msg" THEN "select" ELSE AfterReadError
    /\ UNCHANGED <<ready, connOpen, stream, rpc, ndials, ndrops, nlines, lastSend>>

\* reconnect(): t.conn.Close()
ReconnectClose ==
    /\ lpc = "close"
    /\ connOpen' = FALSE
    /\ lpc' = "unready"
    /\ UNCHANGED <<ready, stream, rpc, ndials, ndrops, nlines, log, lastSend>>

\* reconnect(): t.ready = false under t.mu; the next step is
\* t.state <- Reconnecting.
ReconnectUnready ==
    /\ lpc = "unready"
    /\ ready' = FALSE
    /\ lpc' = "recon"
    /\ UNCHANGED <<connOpen, stream, rpc, ndials, ndrops, nlines, log, lastSend>>

\* A redial goroutine that gives up after a failed attempt.
AfterFailedDialStop == "none"

\* The position of the redial goroutine after a failed attempt: the next
\* round of `for range rt.C`.
AfterFailedDial == "tick"

\* The redial goroutine, on a tick: connect(t.opts) fails.
DialFails ==
    /\ rpc = "tick"
    /\ ndials < MaxDials
    /\ ndials' = ndials + 1
    /\ rpc' = AfterFailedDial
    /\ UNCHANGED <<ready, connOpen, stream, lpc, ndrops, nlines, log, lastSend>>

\* The redial goroutine, on a tick: connect(t.opts) succeeds and
\* t.setup(conn) installs the connection; the next step is
\* t.state <- Reconnected.
DialSucceeds ==
    /\ rpc = "tick"
    /\ ndials < MaxDials
    /\ ndials' = ndials + 1
    /\ connOpen' = TRUE
    /\ stream' = "live"
    /\ ready' = TRUE
    /\ rpc' = "announce"
    /\ UNCHANGED <<lpc, ndrops, nlines, log, lastSend>>

\* t.state <- Reconnected: the dispatch loop receives the event; break, and
\* go t.listen().
ReconnectAnnounce ==
    /\ rpc = "announce"
    /\ StateListener
    /\ log' = Append(log, Reconnected)
    /\ rpc' = "none"
    /\ lpc' = "ready"
    /\ UNCHANGED <<ready, connOpen, stream, ndials, ndrops, nlines, lastSend>>

\* The server drops the stream.
ServerDrop ==
    /\ connOpen /\ stream = "live"
    /\ ndrops < MaxDrops
    /\ ndrops' = ndrops + 1
    /\ stream' = "eof"
    /\ UNCHANGED <<ready, connOpen, lpc, rpc, ndials, nlines, log, lastSend>>

\* The results of t.conn.Write: on a closed connection an error, otherwise
\* an error (of the network, or of a stream the server has dropped) or none.
WriteResults ==
    IF ~connOpen THEN {"io"}
    ELSE {"ok", "io"}

\* sendMessage, under t.mu: ErrUnreachableHost unless t.ready, else the result
\* of t.conn.Write.
SendMessage ==
    /\ \E r \in (IF ~ready THEN {ErrUnreachableHost} ELSE WriteResults) :
          lastSend' = [state |-> LastState(log), result |-> r]
    /\ UNCHANGED <<ready, connOpen, stream, lpc, rpc, ndials, ndrops, nlines, log>>

\* ------------------------------------------ resumption of subscriptions
\* The subscription is active: Notify... has returned it, its context is live
\* and its entry is in the table.
Active(s) ==
    /\ spc[s] = "active"
    /\ ~ctxDone[s]
    /\ subId[s] \in DOMAIN subs
    /\ subs[subId[s]].dest = SubDest(s)

\* A disconnect that releases every destination registered in the table.
StreamDropsReleasing ==
    /\ rd = "run"
    /\ ~eof
    /\ rsm = "none"
    /\ ndrops < MaxDrops
    /\ ndrops' = ndrops + 1
    /\ eof' = TRUE
    /\ subs' = SweptTable(subs)
    /\ resClosed' = [c \in Calls |->
           resClosed[c] \/ \E i \in DOMAIN subs : subs[i].dest = CallDest(c)]
    /\ msgClosed' = [s \in SubIdx |->
           msgClosed[s] \/ \E i \in DOMAIN subs : subs[i].dest = SubDest(s)]
    /\ UNCHANGED <<counter, issued, mu, cdone, pingStopped, nticks, kpc,
                   panicked, closeVars, cpc, callId, cret, subVars, lp,
                   ctxDone, lateHandler, dispVars, tdone, rd, nreads, resVars>>

\* listen() reads io.EOF: the server has dropped the stream, with the
\* subscriptions it held.
StreamDrops ==
    /\ rd = "run"
    /\ ~eof
    /\ rsm = "none"
    /\ ndrops < MaxDrops
    /\ ndrops' = ndrops + 1
    /\ eof' = TRUE
    /\ UNCHANGED <<clientVars, panicked, closeVars, callVars, subVars,
                   loopVars, dispVars, tdone, rd, nreads, resVars>>

\* The redial goroutine: connect succeeds and t.setup(conn) installs the new
\* stream, for which the server holds no subscription; the next step is
\* t.state <- Reconnected.
Redial ==
    /\ eof
    /\ rsm = "none"
    /\ eof' = FALSE
    /\ srv' = {}
    /\ rsm' = "announce"
    /\ UNCHANGED <<clientVars, panicked, closeVars, callVars, subVars,
                   loopVars, dispVars, tdone, rd, nreads, rtodo, rcur, rtasks>>

\* An attempt in flight that goes on beside the new one.
Stacked(n) == n

\* The attempts left in flight once the one in flight has been canceled.
Superseded(n) == 0

\* The dispatch loop receives Reconnected: with a subscription active the
\* attempt in flight, if any, is canceled and a resumption starts; with none
\* active nothing is triggered.
ResumeBegin ==
    /\ rsm = "announce"
    /\ StateListener
    /\ IF \E s \in SubIdx : Active(s)
       THEN /\ rtasks' = Superseded(rtasks) + 1
            /\ rsm' = "poll"
       ELSE /\ rtasks' = rtasks
            /\ rsm' = IF rtasks = 0 THEN "idle" ELSE "poll"
    /\ UNCHANGED <<sessionVars, rtodo, rcur, srv>>

\* The cheap synchronous call of the resumption is answered: the server is
\* responsive, and every subscription active now is to be registered again.
ResumePoll ==
    /\ rsm = "poll"
    /\ ~cdone
    /\ ~eof
    /\ Req
    /\ rsm' = "run"
    /\ rtodo' = {s \in SubIdx : Active(s)}
    /\ UNCHANGED <<subs, mu, cdone, pingStopped, nticks, kpc, panicked,
                   closeVars, callVars, subVars, loopVars, dispVars,
                   transVars, rcur, srv, rtasks>>

\* The session shuts down: the resumption aborts, also one that a pending
\* Reconnected event is about to supersede.
ResumeAbort ==
    /\ rsm \in {"poll", "run", "register", "send"} \/ (rsm = "announce" /\ rtasks > 0)
    /\ cdone
    /\ rsm' = IF rsm = "announce" THEN "announce" ELSE "aborted"
    /\ rtasks' = rtasks - 1
    /\ rtodo' = {}
    /\ UNCHANGED <<sessionVars, rcur, srv>>

\* Resumption, per subscription: remove its old table entry, which closes
\* the source of its delivery loop.
ResumeRemove(s) ==
    /\ rsm = "run"
    /\ ~cdone
    /\ s \in rtodo
    /\ mu = "free"
    /\ RemoveSubscription(subId[s])
    /\ rtodo' = rtodo \ {s}
    /\ rcur' = s
    /\ rsm' = "register"
    /\ UNCHANGED <<counter, issued, mu, cdone, pingStopped, nticks, kpc,
                   panicked, closeVars, cpc, callId, cret, subVars, lp,
                   ctxDone, lateHandler, dispVars, transVars, srv, rtasks>>

\* Resumption, per subscription: allocate a fresh id and register the
\* subscription under it with the same method and the same delivery
\* destination; a delivery loop serves the destination from a new source.  A
\* send of the dispatch loop on the old source is not redirected.
ResumeRegister ==
    /\ rsm = "register"
    /\ ~(dpc = "idsend" /\ dtarget = SubDest(rcur))
    /\ Req
    /\ subs' = Registered(subs, counter,
                          [dest |-> SubDest(rcur), method |-> smethod[rcur]])
    /\ subId' = [subId EXCEPT ![rcur] = counter]
    /\ msgClosed' = [msgClosed EXCEPT ![rcur] = FALSE]
    /\ lp' = [lp EXCEPT ![rcur] = IF lp[rcur] = "handler" THEN "handler"
                                                        ELSE "select"]
    /\ rsm' = "send"
    /\ UNCHANGED <<mu, cdone, pingStopped, nticks, kpc, panicked, closeVars,
                   callVars, spc, smethod, sret, dataClosed, ctxDone,
                   lateHandler, dispVars, transVars, rtodo, rcur, srv, rtasks>>

\* Resumption, per subscription: send the subscribe request again; after the
\* last subscription the resumption is complete.
ResumeSend ==
    /\ rsm = "send"
    /\ SendResult = "ok"
    /\ srv' = IF eof THEN srv ELSE srv \cup {rcur}
    /\ rcur' = 0
    /\ rsm' = IF rtodo = {} THEN "done" ELSE "run"
    /\ rtasks' = IF rtodo = {} THEN rtasks - 1 ELSE rtasks
    /\ UNCHANGED <<sessionVars, rtodo>>

\* SubSend, with the server recording the subscription of a request that
\* reached it.
SubSendServed(s) ==
    /\ SubSend(s)
    /\ srv' = IF spc'[s] = "active" /\ ~eof THEN srv \cup {s} ELSE srv
    /\ UNCHANGED <<rsm, rtodo, rcur, rtasks>>

\* ------------------------------------------------------------------ Next
Running == panicked = ""

\* The processes every specification runs: the dispatch loop, the transport
\* reader and the invocations of Close.
System ==
    \/ Running /\ DispDone /\ UNCHANGED extVars
    \/ Running /\ DispError /\ UNCHANGED extVars
    \/ Running /\ DispMessage /\ UNCHANGED extVars
    \/ Running /\ FanoutDeliver /\ UNCHANGED extVars
    \/ Running /\ IdDeliver /\ UNCHANGED extVars
    \/ Running /\ DispSendPanic /\ UNCHANGED extVars
    \/ Running /\ ListenStop /\ UNCHANGED extVars
    \/ \E k \in Closers : Running /\ Close(k) /\ UNCHANGED extVars

CallSteps(c) ==
    \/ Running /\ CallReq(c) /\ UNCHANGED extVars
    \/ Running /\ CallRegister(c) /\ UNCHANGED extVars
    \/ Running /\ CallSend(c) /\ UNCHANGED extVars
    \/ Running /\ CallRecvClosed(c) /\ UNCHANGED extVars
    \/ Running /\ CallUnregister(c) /\ UNCHANGED extVars

SubSteps(s) ==
    \/ \E m \in Methods : Running /\ SubStart(s, m) /\ UNCHANGED extVars
    \/ Running /\ SubRegister(s) /\ UNCHANGED extVars
    \/ Running /\ SubSend(s) /\ UNCHANGED extVars
    \/ Running /\ SubFailRemove(s) /\ UNCHANGED extVars
    \/ Running /\ SubFailClose(s) /\ UNCHANGED extVars
    \/ Running /\ LoopClosed(s) /\ UNCHANGED extVars
    \/ Running /\ HandlerDone(s) /\ UNCHANGED extVars

\* Synchronous operations in the foreground: NumCalls callers, keep-alive
\* enabled, SubsBesideCalls subscriptions whose contexts stay live, and writes
\* that may fail at any time.
NextCalls ==
    \/ System
    \/ \E c \in Calls : CallSteps(c)
    \/ \E s \in 1..SubsBesideCalls : SubSteps(s)
    \/ \E c \in Calls : Running /\ CallSendWriteError(c) /\ UNCHANGED extVars
    \/ \E s \in 1..SubsBesideCalls : Running /\ SubSendWriteError(s) /\ UNCHANGED extVars
    \/ Running /\ KeepAliveTick /\ UNCHANGED extVars
    \/ Running /\ KeepAliveSend /\ UNCHANGED extVars

SpecCalls == Init /\ [][NextCalls]_vars

\* Subscriptions in the foreground: NumSubs subscriptions whose contexts may
\* be canceled, CallsBesideSubs callers, keep-alive disabled, and writes that
\* fail only on the closed connection.
NextSubs ==
    \/ System
    \/ \E s \in SubIdx : SubSteps(s)
    \/ \E s \in SubIdx : Running /\ LoopCtxDone(s) /\ UNCHANGED extVars
    \/ \E s \in SubIdx : Running /\ Cancel(s) /\ UNCHANGED extVars
    \/ \E c \in 1..CallsBesideSubs : CallSteps(c)

SpecSubs == Init /\ [][NextSubs]_vars

\* Operations on a closed client: the callers and the subscribers start only
\* after Close() has been invoked.
LateCallSteps(c) ==
    \/ Running /\ cdone /\ CallReq(c) /\ UNCHANGED extVars
    \/ Running /\ CallRegister(c) /\ UNCHANGED extVars
    \/ Running /\ CallSend(c) /\ UNCHANGED extVars
    \/ Running /\ CallRecvClosed(c) /\ UNCHANGED extVars
    \/ Running /\ CallUnregister(c) /\ UNCHANGED extVars

LateSubSteps(s) ==
    \/ \E m \in Methods : Running /\ cdone /\ SubStart(s, m) /\ UNCHANGED extVars
    \/ Running /\ SubRegister(s) /\ UNCHANGED extVars
    \/ Running /\ SubSend(s) /\ UNCHANGED extVars
    \/ Running /\ SubFailRemove(s) /\ UNCHANGED extVars
    \/ Running /\ SubFailClose(s) /\ UNCHANGED extVars
    \/ Running /\ LoopClosed(s) /\ UNCHANGED extVars
    \/ Running /\ HandlerDone(s) /\ UNCHANGED extVars

NextLate ==
    \/ System
    \/ \E c \in 1..CallsBesideSubs : LateCallSteps(c)
    \/ \E s \in 1..SubsBesideCalls : LateSubSteps(s)

SpecLate == Init /\ [][NextLate]_vars

\* The exported operations in the foreground: every caller invokes one
\* operation of the client under one of the three protocols.
OpSteps(c) ==
    \/ \E o \in Operations : Running /\ OpInvoke(c, o) /\ UNCHANGED <<connVars, resVars, histVars>>
    \/ Running /\ OpReturn(c) /\ UNCHANGED <<connVars, resVars, histVars>>
    \/ Running /\ CallRegister(c) /\ UNCHANGED extVars
    \/ Running /\ CallSend(c) /\ UNCHANGED extVars
    \/ Running /\ CallSendWriteError(c) /\ UNCHANGED extVars
    \/ Running /\ CallRecvClosed(c) /\ UNCHANGED extVars
    \/ Running /\ CallUnregister(c) /\ UNCHANGED extVars

NextOps ==
    \/ \E c \in Calls : OpSteps(c)
    \/ Running /\ DispDone /\ UNCHANGED extVars
    \/ Running /\ DispMessage /\ UNCHANGED extVars
    \/ Running /\ IdDeliver /\ UNCHANGED extVars
    \/ Running /\ DispSendPanic /\ UNCHANGED extVars
    \/ Running /\ ListenStop /\ UNCHANGED extVars
    \/ \E k \in Closers : Running /\ Close(k) /\ UNCHANGED extVars

\* New(options) with any of the protocol versions.
InitProtocols ==
    /\ InitSession
    /\ protocol \in Protocols
    /\ InitOps
    /\ InitConn
    /\ InitResume
    /\ wire = NoWire

SpecOps == InitProtocols /\ [][NextOps]_vars

\* The reconnecting transport in the foreground, with the dispatch loop as
\* the receiver of its lines, errors and state events, a sender and Close().
ConnSteps ==
    \/ Running /\ ListenAnnounce /\ UNCHANGED <<sessionVars, opVars, resVars, histVars>>
    \/ Running /\ ListenSelectDone /\ UNCHANGED <<sessionVars, opVars, resVars, histVars>>
    \/ Running /\ ListenSelectDefault /\ UNCHANGED <<sessionVars, opVars, resVars, histVars>>
    \/ Running /\ ListenReadInput /\ UNCHANGED <<sessionVars, opVars, resVars, histVars>>
    \/ Running /\ ListenReadFails /\ UNCHANGED <<sessionVars, opVars, resVars, histVars>>
    \/ Running /\ ListenForward /\ UNCHANGED <<sessionVars, opVars, resVars, histVars>>
    \/ Running /\ ReconnectClose /\ UNCHANGED <<sessionVars, opVars, resVars, histVars>>
    \/ Running /\ ReconnectUnready /\ UNCHANGED <<sessionVars, opVars, resVars, histVars>>
    \/ Running /\ DialFails /\ UNCHANGED <<sessionVars, opVars, resVars, histVars>>
    \/ Running /\ DialSucceeds /\ UNCHANGED <<sessionVars, opVars, resVars, histVars>>
    \/ Running /\ ReconnectAnnounce /\ UNCHANGED <<sessionVars, opVars, resVars, histVars>>
    \/ Running /\ ServerDrop /\ UNCHANGED <<sessionVars, opVars, resVars, histVars>>
    \/ Running /\ SendMessage /\ UNCHANGED <<sessionVars, opVars, resVars, histVars>>

NextConn ==
    \/ ConnSteps
    \/ Running /\ DispDone /\ UNCHANGED extVars
    \/ \E k \in Closers : Running /\ Close(k) /\ UNCHANGED extVars

SpecConn == Init /\ [][NextConn]_vars

\* The resumption in the foreground: NumSubs subscriptions whose contexts
\* stay live, a stream that the server drops and a redial that succeeds.
ResumeSteps ==
    \/ Running /\ StreamDrops
         /\ UNCHANGED <<opVars, ready, connOpen, stream, lpc, rpc, ndials,
                        nlines, log, lastSend, histVars>>
    \/ Running /\ Redial /\ UNCHANGED <<opVars, connVars, histVars>>
    \/ Running /\ ResumeBegin /\ UNCHANGED <<opVars, connVars, histVars>>
    \/ Running /\ ResumePoll /\ UNCHANGED <<opVars, connVars, histVars>>
    \/ Running /\ ResumeAbort /\ UNCHANGED <<opVars, connVars, histVars>>
    \/ \E s \in SubIdx : Running /\ ResumeRemove(s) /\ UNCHANGED <<opVars, connVars, histVars>>
    \/ Running /\ ResumeRegister /\ UNCHANGED <<opVars, connVars, histVars>>
    \/ Running /\ ResumeSend /\ UNCHANGED <<opVars, connVars, histVars>>

ResumeSubSteps(s) ==
    \/ \E m \in Methods : Running /\ SubStart(s, m) /\ UNCHANGED extVars
    \/ Running /\ SubRegister(s) /\ UNCHANGED extVars
    \/ Running /\ SubSendServed(s) /\ UNCHANGED <<opVars, connVars, histVars>>
    \/ Running /\ SubFailRemove(s) /\ UNCHANGED extVars
    \/ Running /\ SubFailClose(s) /\ UNCHANGED extVars
    \/ Running /\ LoopClosed(s) /\ UNCHANGED extVars
    \/ Running /\ HandlerDone(s) /\ UNCHANGED extVars

NextResume ==
    \/ ResumeSteps
    \/ \E s \in SubIdx : ResumeSubSteps(s)
    \/ Running /\ DispDone /\ UNCHANGED extVars
    \/ Running /\ DispMessage /\ UNCHANGED extVars
    \/ Running /\ FanoutDeliver /\ UNCHANGED extVars
    \/ Running /\ IdDeliver /\ UNCHANGED extVars
    \/ Running /\ DispSendPanic /\ UNCHANGED extVars
    \/ Running /\ ListenStop /\ UNCHANGED extVars
    \/ Running /\ Close(1) /\ UNCHANGED extVars

SpecResume == Init /\ [][NextResume]_vars

\* listen() reads io.EOF on the new stream while the resumption is polling.
StreamDropsAgain ==
    /\ rd = "run"
    /\ ~eof
    /\ rsm = "poll"
    /\ ndrops < MaxRedrops
    /\ ndrops' = ndrops + 1
    /\ eof' = TRUE
    /\ UNCHANGED <<clientVars, panicked, closeVars, callVars, subVars,
                   loopVars, dispVars, tdone, rd, nreads, resVars>>

\* The redial goroutine of that disconnect: connect succeeds and
\* t.setup(conn) installs the next stream; the next step is
\* t.state <- Reconnected, with the attempt still polling.
RedialAgain ==
    /\ eof
    /\ rsm = "poll"
    /\ eof' = FALSE
    /\ srv' = {}
    /\ rsm' = "announce"
    /\ UNCHANGED <<clientVars, panicked, closeVars, callVars, subVars,
                   loopVars, dispVars, tdone, rd, nreads, rtodo, rcur, rtasks>>

\* The resumption with a stream that drops again while the attempt is
\* polling.
NextSupersede ==
    \/ NextResume
    \/ Running /\ StreamDropsAgain
         /\ UNCHANGED <<opVars, ready, connOpen, stream, lpc, rpc, ndials,
                        nlines, log, lastSend, histVars>>
    \/ Running /\ RedialAgain /\ UNCHANGED <<opVars, connVars, histVars>>

SpecSupersede == Init /\ [][NextSupersede]_vars

\* The stream ends before the server has sent a line, with a call waiting
\* for its reply.
StreamEndsUnderCall ==
    /\ nreads = 0
    /\ \E c \in Calls : cpc[c] = "waiting"
    /\ StreamDrops

\* Calls across a reconnect: NumCalls callers, a stream that ends under a
\* call, a redial that succeeds and the lines of the new stream; no
\* subscription is active, so the Reconnected event starts no resumption.
NextRedial ==
    \/ \E c \in Calls : CallSteps(c)
    \/ Running /\ StreamEndsUnderCall
         /\ UNCHANGED <<opVars, ready, connOpen, stream, lpc, rpc, ndials,
                        nlines, log, lastSend, histVars>>
    \/ Running /\ Redial /\ UNCHANGED <<opVars, connVars, histVars>>
    \/ Running /\ ResumeBegin /\ UNCHANGED <<opVars, connVars, histVars>>
    \/ Running /\ DispDone /\ UNCHANGED extVars
    \/ Running /\ DispMessage /\ UNCHANGED extVars
    \/ Running /\ IdDeliver /\ UNCHANGED extVars
    \/ Running /\ DispSendPanic /\ UNCHANGED extVars
    \/ Running /\ ListenStop /\ UNCHANGED extVars
    \/ Running /\ Close(1) /\ UNCHANGED extVars

SpecRedial == Init /\ [][NextRedial]_vars

\* The lines in the foreground: what the dispatch loop received last is kept,
\* beside CallsBesideSubs callers and SubsBesideCalls subscriptions.
NextFrames ==
    \/ \E w \in WireFrames :
          Running /\ DispMessageOf(w) /\ wire' = w
              /\ UNCHANGED <<opVars, connVars, resVars>>
    \/ Running /\ DispDone /\ UNCHANGED extVars
    \/ Running /\ FanoutDeliver /\ UNCHANGED extVars
    \/ Running /\ IdDeliver /\ UNCHANGED extVars
    \/ Running /\ DispSendPanic /\ UNCHANGED extVars
    \/ Running /\ ListenStop /\ UNCHANGED extVars
    \/ Running /\ Close(1) /\ UNCHANGED extVars
    \/ \E c \in 1..CallsBesideSubs : CallSteps(c)
    \/ \E s \in 1..SubsBesideCalls : SubSteps(s)

SpecFrames == Init /\ [][NextFrames]_vars

\* ------------------------------------------- the shutdown sweep, step by step
\* The reason of the fatal error of the Go runtime when a map is written
\* while a range loop reads it.
MapRace == "concurrent map iteration and map write"

\* case <-c.done: c.ping.Stop(), then `for i := range c.subs` starts.  The
\* range statement reads the table without the mutex; dtodo holds the keys
\* that were in the table when it started and have not been produced.
DispSweepStart ==
    /\ dpc = "select"
    /\ cdone
    /\ pingStopped' = TRUE
    /\ dpc' = "sweep"
    /\ dtodo' = DOMAIN subs
    /\ UNCHANGED <<counter, issued, subs, mu, cdone, nticks, kpc, panicked,
                   closeVars, callVars, subVars, loopVars, dframe, dtarget,
                   delivered, transVars>>

\* The range loop produces a key and the body runs c.removeSubscription(i)
\* under the mutex.  A key that was deleted before it was reached is not
\* produced; a key that was inserted after the loop started may be.
DispSweepRemove ==
    /\ dpc = "sweep"
    /\ mu = "free"
    /\ \E i \in DOMAIN subs :
          /\ RemoveSubscription(i)
          /\ dtodo' = dtodo \ {i}
    /\ UNCHANGED <<counter, issued, mu, cdone, pingStopped, nticks, kpc, panicked,
                   closeVars, cpc, callId, cret, subVars, lp, ctxDone,
                   lateHandler, dpc, dframe, dtarget, delivered, transVars>>

\* The range loop ends, once every key it started with has been produced or
\* deleted (a key inserted meanwhile may be skipped), and handleMessages
\* returns.
DispSweepEnd ==
    /\ dpc = "sweep"
    /\ dtodo \cap DOMAIN subs = {}
    /\ dpc' = "exited"
    /\ dtodo' = {}
    /\ UNCHANGED <<clientVars, panicked, closeVars, callVars, subVars, loopVars,
                   dframe, dtarget, delivered, transVars>>

\* A caller or a subscriber is about to write the table under the mutex:
\* c.subs[req.Id] = ... of syncRequest and startSubscription, or the delete
\* of removeSubscription.
TableWriter ==
    \/ \E c \in Calls :
          \/ cpc[c] = "hasId"
          \/ cpc[c] = "unreg" /\ callId[c] \in DOMAIN subs
    \/ \E s \in SubIdx :
          \/ spc[s] = "hasId"
          \/ spc[s] = "failrm" /\ subId[s] \in DOMAIN subs

\* The write of the table by another goroutine coincides with a read of the
\* range loop, which holds no mutex: the runtime ends the process.
SweepRace ==
    /\ dpc = "sweep"
    /\ TableWriter
    /\ Crash(MapRace)

\* The sweep in the foreground: the dispatch loop takes its shutdown branch
\* step by step, beside NumCalls callers and SubsBesideCalls subscriptions.
NextSweep ==
    \/ Running /\ DispSweepStart /\ UNCHANGED extVars
    \/ Running /\ DispSweepRemove /\ UNCHANGED extVars
    \/ Running /\ DispSweepEnd /\ UNCHANGED extVars
    \/ Running /\ SweepRace /\ UNCHANGED extVars
    \/ Running /\ DispMessage /\ UNCHANGED extVars
    \/ Running /\ FanoutDeliver /\ UNCHANGED extVars
    \/ Running /\ IdDeliver /\ UNCHANGED extVars
    \/ Running /\ DispSendPanic /\ UNCHANGED extVars
    \/ Running /\ ListenStop /\ UNCHANGED extVars
    \/ Running /\ Close(1) /\ UNCHANGED extVars
    \/ \E c \in Calls : CallSteps(c)
    \/ \E s \in 1..SubsBesideCalls : SubSteps(s)

SpecSweep == Init /\ [][NextSweep]_vars

\* The steps the transport and the dispatch loop take on their own:
\* everything but the inputs (a line or an error from the server, a dropped
\* stream, the outcome of a dial, a sendMessage, a Close).
ConnProgramStep ==
    Running /\ (ListenAnnounce \/ ListenSelectDone \/ ListenSelectDefault
                   \/ ListenReadFails \/ ListenForward \/ ReconnectClose
                   \/ ReconnectUnready \/ ReconnectAnnounce \/ DispDone)

\* Nothing is left for the transport to do until the next input.
QuiescentConn == ~ENABLED ConnProgramStep

\* The steps the program takes on its own: everything but the inputs (a new
\* operation, a line or an error from the server, a write error, a keep-alive
\* tick, a cancellation, a Close, the consumer taking an item).
ProgramStep ==
    \/ \E c \in Calls :
          Running /\ (CallRegister(c) \/ CallSend(c) \/ CallRecvClosed(c)
                         \/ CallUnregister(c))
    \/ \E s \in SubIdx :
          Running /\ (SubRegister(s) \/ SubSend(s) \/ SubFailRemove(s)
                         \/ SubFailClose(s) \/ LoopClosed(s) \/ LoopCtxDone(s))
    \/ Running /\ (DispDone \/ FanoutDeliver \/ IdDeliver \/ DispSendPanic
                     \/ KeepAliveSend \/ ListenStop)

\* Nothing is left for the program to do until the next input.
Quiescent == ~ENABLED ProgramStep

\* The id under which a destination was registered.
DestId(d) == IF d.kind = "call" THEN callId[d.idx] ELSE subId[d.idx]

\* The records of the completed sends.
Deliveries == BagToSet(delivered)

\* ------------------------------------------------------------------ C1
\* C1: every id handed out by req() is distinct, the first one is 0 and each
\* later one is strictly larger than every earlier one, across calls,
\* subscriptions and keep-alive ticks, also after a send has failed.
C1_IdsDistinctIncreasing ==
    /\ Len(issued) > 0 => issued[1] = 0
    /\ \A i, j \in 1..Len(issued) : i < j => issued[i] < issued[j]
    /\ \A c \in Calls : callId[c] # NoId =>
          /\ \E i \in 1..Len(issued) : issued[i] = callId[c]
          /\ \A c2 \in Calls \ {c} : callId[c2] # callId[c]
          /\ \A s \in SubIdx : subId[s] # callId[c]
    /\ \A s \in SubIdx : subId[s] # NoId =>
          /\ \E i \in 1..Len(issued) : issued[i] = subId[s]
          /\ \A s2 \in SubIdx \ {s} : subId[s2] # subId[s]

\* A call whose send failed, a later call with a larger id, a subscription
\* and a keep-alive request have all taken an id.
C1_Witness ==
    /\ Len(issued) = NumCalls + SubsBesideCalls + MaxTicks
    /\ nticks = MaxTicks /\ kpc = "wait"
    /\ spc[1] # "idle"
    /\ \E c, c2 \in Calls :
          /\ cpc[c] = "returned" /\ cret[c].err = "send"
          /\ callId[c2] > callId[c]

\* ------------------------------------------------------------------ C2
\* C2: after syncRequest has returned the table holds no entry for its id,
\* and once handleMessages has processed Close the table is empty.
C2_NoEntryOutlives ==
    /\ \A c \in Calls : cpc[c] = "returned" => callId[c] \notin DOMAIN subs
    /\ dpc = "exited" => DOMAIN subs = {}

\* ------------------------------------------------------------------ C3
\* C3: a call that is outstanding (registered, sent, no reply yet) when
\* Close() is invoked does not return a nil reply together with a nil error:
\* it returns an error (or the reply, if that still arrived).
C3_ReleasedCallReturnsError ==
    \A c \in outAtClose :
        cpc[c] = "returned" => ~(cret[c].resp = Nil /\ cret[c].err = "nil")

\* ------------------------------------------------------------------ C4
\* C4: a second invocation of Close() does not crash the process.
C4_SecondCloseIsNoOp == panicked # "close of closed channel"

\* ------------------------------------------------------------------ C5
\* C5: a frame with an empty method and id X is delivered to one destination
\* only, the entry registered under X, and to no other call or subscription;
\* with no entry under X it is dropped and the table is unchanged; a call
\* returns only the reply that carries its own id.
C5_Routed ==
    /\ \A r \in Deliveries : r.frame.method = "" =>
          /\ DestId(r.dest) = r.frame.id
          /\ CopiesIn(r, delivered) = 1
          /\ \A r2 \in Deliveries : r2.n = r.n => r2 = r
    /\ \A c \in Calls :
          cret[c].resp # Nil => cret[c].resp = [id |-> callId[c], method |-> ""]
    /\ dpc = "idsend" => DestId(dtarget) = dframe.id

C5_LookupStep ==
    /\ (Running' /\ dpc = "select" /\ dpc' = "idsend") =>
          /\ dframe'.id \in DOMAIN subs
          /\ dtarget' = subs[dframe'.id].dest
          /\ subs' = subs
    /\ (Running' /\ dpc = "select" /\ dpc' = "select" /\ ~eof' /\ nreads' # nreads) =>
          /\ subs' = subs
          /\ delivered' = delivered
          /\ cpc' = cpc /\ cret' = cret /\ lp' = lp

C5_ReplyToOwnerOnly == []C5_Routed /\ [][C5_LookupStep]_vars

\* Two calls were outstanding, the reply to the later one arrived first, each
\* call has returned its own reply, and the registered subscription got none.
C5_Witness ==
    /\ callId[1] < callId[2]
    /\ \A c \in Calls :
          cpc[c] = "returned" /\ cret[c].resp = [id |-> callId[c], method |-> ""]
    /\ \E r1, r2 \in Deliveries :
          r1.dest = CallDest(1) /\ r2.dest = CallDest(2) /\ r2.n < r1.n
    /\ spc[1] = "active" /\ subId[1] \in DOMAIN subs /\ lp[1] = "select"
    /\ \A r \in Deliveries : r.dest # SubDest(1)

\* ------------------------------------------------------------------ C6
\* C6: a frame with a non-empty method M is delivered exactly once to every
\* subscription registered with method M, and to no subscription of another
\* method and to no pending call, whatever id it carries.
C6_FannedOut ==
    /\ \A r \in Deliveries : r.frame.method # "" =>
          /\ r.dest.kind = "sub"
          /\ smethod[r.dest.idx] = r.frame.method
          /\ CopiesIn(r, delivered) = 1
    /\ dpc = "fanout" =>
          LET matching == {i \in DOMAIN subs : subs[i].method = dframe.method}
              done == {DestId(r.dest) : r \in {x \in Deliveries : x.n = dframe.n}}
          IN /\ done \cup dtodo \cup {DestId(dtarget)} = matching
             /\ done \cap dtodo = {}
             /\ DestId(dtarget) \notin done \cup dtodo

C6_CompleteStep ==
    (Running' /\ dpc = "fanout" /\ dpc' = "select") =>
        {r.dest : r \in {x \in BagToSet(delivered') : x.n = dframe.n}}
          = {subs[i].dest : i \in {j \in DOMAIN subs : subs[j].method = dframe.method}}

C6_PushToEveryMatching == []C6_FannedOut /\ [][C6_CompleteStep]_vars

\* Both subscriptions are for the same method and each has received the one
\* push, which carries the id of a pending call that received nothing.
C6_Witness ==
    /\ dpc = "select"
    /\ smethod[1] = smethod[2]
    /\ cpc[1] = "waiting"
    /\ \E r1, r2 \in Deliveries :
          /\ r1.dest = SubDest(1) /\ r2.dest = SubDest(2)
          /\ r1.n = r2.n
          /\ r1.frame = [id |-> callId[1], method |-> smethod[1]]
    /\ \A r \in Deliveries : r.dest.kind = "sub"

\* ------------------------------------------------------------------ C7
\* C7: a subscription whose handler is blocked does not hold up the dispatch
\* loop: the loop is never stuck sending to that subscription, with or
\* without the mutex that req() and the registrations need.
C7_BlockedHandlerIsolated ==
    \A s \in SubIdx :
        lp[s] = "handler" =>
            ~(dpc \in {"fanout", "idsend"} /\ dtarget = SubDest(s))

\* ------------------------------------------------------------------ C8
\* C8: once a subscription that Notify... returned is terminated (context
\* canceled, or client closed) and the program has nothing left to do, the
\* data channel handed to the caller is closed.
C8_DataChannelClosed ==
    \A s \in SubIdx :
        (spc[s] = "active" /\ (ctxDone[s] \/ cdone) /\ Quiescent) => dataClosed[s]

\* ------------------------------------------------------------------ C9
\* C9: once the context of a subscription is canceled and the program has
\* nothing left to do, the delivery loop has stopped and the entry of the
\* subscription is out of the table.
C9_CanceledIsUnregistered ==
    \A s \in SubIdx :
        (spc[s] = "active" /\ ctxDone[s] /\ Quiescent) =>
            (lp[s] = "exit" /\ subId[s] \notin DOMAIN subs)

\* ----------------------------------------------------------------- C10
\* C10: the handler of a subscription is not invoked once its context is
\* canceled or its channel closed.
C10_NoHandlerAfterTeardown == \A s \in SubIdx : ~lateHandler[s]

\* ----------------------------------------------------------------- C11
\* C11: once Close() has been invoked and the program has nothing left to do,
\* the dispatch loop has processed the close, every call that was pending at
\* the close is out of the table with its channel closed, and no delivery
\* loop is still inside a handler: also when a handler was blocked or the
\* dispatch loop was delivering a frame at the close.
C11_ShutdownReleasesAll ==
    (cdone /\ Quiescent) =>
        /\ dpc = "exited"
        /\ \A c \in outAtClose : resClosed[c] /\ callId[c] \notin DOMAIN subs
        /\ \A s \in SubIdx : lp[s] # "handler"

\* ----------------------------------------------------------------- C12
\* C12: a call issued after Close() returns an error, a subscribe issued after
\* Close() does not return without one, and no such call is left waiting for
\* a reply when the program has nothing left to do.
C12_LateOperationFails ==
    /\ \A c \in Calls :
          /\ cpc[c] = "returned" => cret[c].err # "nil"
          /\ ~(cpc[c] = "waiting" /\ Quiescent)
    /\ \A s \in SubIdx : spc[s] = "active" => sret[s] # "nil"

\* ----------------------------------------------------------------- C16
\* C16: a synchronous operation whose reply carries an error object returns a
\* non-nil error to its caller.
C16_RpcErrorSurfaced ==
    \A c \in Calls :
        (opc[c] = "returned" /\ opReply[c] = "error") => opErr[c] # "nil"

\* ----------------------------------------------------------------- C17
\* C17: ServerPing under a protocol other than 1.2, and ServerFeatures under
\* protocol 1.0, return ErrUnavailableMethod; the invocation allocates no id,
\* adds no table entry, never enters syncRequest (nothing is sent) and leaves
\* the whole session as it was.
C17_Unavailable(c) ==
    \/ opName[c] = "ServerPing" /\ protocol # Protocol12
    \/ opName[c] = "ServerFeatures" /\ protocol = Protocol10

C17_Rejected ==
    \A c \in Calls :
        C17_Unavailable(c) =>
            /\ opc[c] = "returned"
            /\ opErr[c] = ErrUnavailableMethod
            /\ opReply[c] = "none"
            /\ cpc[c] = "idle" /\ callId[c] = NoId

C17_RejectStep ==
    \A c \in Calls :
        (opc[c] = "idle" /\ C17_Unavailable(c)') => UNCHANGED sessionVars

C17_UnavailableIsInert == []C17_Rejected /\ [][C17_RejectStep]_vars

\* Under protocol 1.0, with the request of ServerBanner registered and sent,
\* ServerFeatures has been refused; under protocol 1.1 the same for ServerPing.
C17_Witness ==
    /\ opName[1] = "ServerBanner" /\ cpc[1] = "waiting"
    /\ counter = 1 /\ DOMAIN subs = {0}
    /\ opc[2] = "returned" /\ opErr[2] = ErrUnavailableMethod
    /\ \/ protocol = Protocol10 /\ opName[2] = "ServerFeatures"
       \/ protocol = Protocol11 /\ opName[2] = "ServerPing"

\* ----------------------------------------------------------------- C18
\* C18: UTXOAddress, BlockChunk and NotifyBlockNums return
\* ErrDeprecatedMethod under every protocol; the invocation allocates no id,
\* registers nothing, starts no delivery loop, sends nothing and leaves the
\* whole session as it was.
C18_Rejected ==
    \A c \in Calls :
        opName[c] \in {"UTXOAddress", "BlockChunk", "NotifyBlockNums"} =>
            /\ opc[c] = "returned"
            /\ opErr[c] = ErrDeprecatedMethod
            /\ opReply[c] = "none"
            /\ cpc[c] = "idle" /\ callId[c] = NoId

C18_RejectStep ==
    \A c \in Calls :
        (opc[c] = "idle"
            /\ opName'[c] \in {"UTXOAddress", "BlockChunk", "NotifyBlockNums"})
        => UNCHANGED sessionVars

C18_DeprecatedIsInert == []C18_Rejected /\ [][C18_RejectStep]_vars

\* Under protocol 1.2, with the request of ServerBanner registered and sent,
\* NotifyBlockNums has returned ErrDeprecatedMethod.
C18_Witness ==
    /\ protocol = Protocol12
    /\ opName[1] = "ServerBanner" /\ cpc[1] = "waiting"
    /\ counter = 1 /\ DOMAIN subs = {0}
    /\ opName[2] = "NotifyBlockNums"
    /\ opc[2] = "returned" /\ opErr[2] = ErrDeprecatedMethod

\* ------------------------------------------------------------------ C13
\* C13: from the moment Disconnected is announced until Reconnected is
\* announced, every sendMessage returns the unreachable-host error, without
\* writing to the stream.
C13_UnreachableWhileDown ==
    lastSend.state \in {Disconnected, Reconnecting} =>
        lastSend.result = ErrUnreachableHost

\* ------------------------------------------------------------------ C14
\* C14: after end-of-stream on a ready connection the state events are
\* Disconnected, then Reconnecting, then (once a dial has succeeded)
\* Reconnected, with no other state event and no line or error of the old
\* stream forwarded between them.
C14_ReconnectSequence ==
    \A i \in 1..Len(log) :
        log[i] = Disconnected =>
            /\ i > 1 /\ LastState(SubSeq(log, 1, i - 1)) = Ready
            /\ i + 1 <= Len(log) => log[i + 1] = Reconnecting
            /\ i + 2 <= Len(log) => log[i + 2] = Reconnected

\* A line was forwarded on the ready connection, the stream dropped, a dial
\* failed and the next one succeeded, and the three events were announced.
C14_Witness ==
    /\ ndials = 2
    /\ \E i \in 1..Len(log) :
          /\ log[i] = Disconnected
          /\ i + 2 <= Len(log) /\ log[i + 2] = Reconnected
          /\ \E j \in 1..(i - 1) : log[j] = "line"

\* ------------------------------------------------------------------ C15
\* C15: once the resumption after a reconnect is complete, every active
\* subscription is held by the server for the new stream and is in the table
\* under one id, with its method and its delivery destination, a delivery
\* loop serving it from an open source, while the caller has not subscribed
\* again; and every push read from then on is fanned out to each active
\* subscription of its method.
C15_Reregistered ==
    (rsm = "done" /\ ~cdone) =>
        \A s \in SubIdx :
            spc[s] = "active" =>
                /\ s \in srv
                /\ Active(s)
                /\ subs[subId[s]].method = smethod[s]
                /\ \A i \in DOMAIN subs :
                       subs[i].dest = SubDest(s) => i = subId[s]
                /\ ~msgClosed[s]
                /\ lp[s] \in {"select", "handler"}

C15_PushStep ==
    (rsm = "done" /\ ~cdone /\ dpc = "select" /\ dpc' = "fanout") =>
        \A s \in SubIdx :
            (spc[s] = "active" /\ smethod[s] = dframe'.method) =>
                SubDest(s) \in {dtarget'} \cup {subs[i].dest : i \in dtodo'}

C15_SubscriptionsResumed == []C15_Reregistered /\ [][C15_PushStep]_vars

\* The headers subscription had id 0 when the stream dropped; after the redial
\* the poll took id 1 and the subscription was registered again under id 2;
\* the reply to id 2 and then a headers push were delivered to its loop.
C15_Witness ==
    /\ ndrops = 1 /\ rsm = "done" /\ ~cdone
    /\ spc[1] = "active" /\ subId[1] = 2 /\ issued = <<0, 1, 2>>
    /\ \E r1, r2 \in Deliveries :
          /\ r1.dest = SubDest(1) /\ r1.n = 1
          /\ r1.frame = [id |-> 2, method |-> ""]
          /\ r2.dest = SubDest(1) /\ r2.n = 2
          /\ r2.frame.method = HeadersMethod

\* ------------------------------------------------------------------ C19
\* C19: after Close() the transport closes the network connection and
\* announces Closed, also when the server sends nothing more and when the
\* dispatch loop has exited: once nothing is left for it to do, both have
\* happened.
C19_CloseReachesTransport ==
    (tdone /\ QuiescentConn) =>
        /\ ~connOpen
        /\ \E i \in 1..Len(log) : log[i] = ClosedState

\* ------------------------------------------------------------------ C20
\* C20: with the session closed and the transport reconnecting, no further
\* dial attempt is made, Reconnected is not announced and no new reader
\* starts (which would announce Ready).
C20_CloseStep ==
    (tdone /\ rpc # "none" /\ Running') =>
        /\ ndials' = ndials
        /\ Len(log') > Len(log) => log'[Len(log')] # Reconnected
        /\ lpc' # "ready"

C20_ClosedIsTerminal == [][C20_CloseStep]_vars

\* ------------------------------------------------------------------ C21
\* C21: a write error returned by sendMessage on a Ready connection starts
\* the reconnect path: once nothing is left for the transport to do, it is
\* not ready and Reconnecting has been announced.
C21_WriteErrorReconnects ==
    (/\ lastSend = [state |-> Ready, result |-> "io"]
     /\ ~tdone /\ ~cdone
     /\ QuiescentConn) =>
        /\ ~ready
        /\ \E i \in 1..Len(log) : log[i] = Reconnecting

\* ------------------------------------------------------------------ C22
\* C22: announcing a state event never blocks the reader or the redial
\* goroutine: whenever one of them has an event to announce, it can go on,
\* whether or not the listener is there to take the event.
C22_AnnounceNeverBlocks ==
    /\ Announces(lpc) # "" => ENABLED ListenAnnounce
    /\ rpc = "announce" => ENABLED ReconnectAnnounce

\* ------------------------------------------------------------------ C23
\* C23: after a disconnect the redial goroutine dials on every tick, however
\* many attempts have failed; a failed attempt leaves it waiting for the next
\* tick; a successful one installs the new stream and makes the transport
\* ready, then Reconnected is announced and a reader starts on the new
\* stream.  With the session open the goroutine never stalls in between.
C23_RetryStep ==
    Running' =>
        /\ (rpc = "tick" /\ ndials' # ndials) =>
              \/ rpc' = "tick" /\ UNCHANGED <<ready, connOpen, stream, lpc, log>>
              \/ rpc' = "announce" /\ ready' /\ connOpen' /\ stream' = "live"
        /\ (rpc = "announce" /\ rpc' # "announce") =>
              /\ ready /\ connOpen
              /\ log' = Append(log, Reconnected)
              /\ lpc' = "ready"

C23_NoStall ==
    /\ (rpc = "tick" /\ ndials < MaxDials /\ Running) =>
          ENABLED DialFails /\ ENABLED DialSucceeds
    /\ (Running /\ ~cdone /\ QuiescentConn) => rpc \in {"none", "tick"}

C23_RedialUntilSuccess == []C23_NoStall /\ [][C23_RetryStep]_vars

\* The first dial failed, the second one succeeded; Reconnected and then
\* Ready were announced and the new reader is reading the new stream.
C23_Witness ==
    /\ ndials = 2 /\ rpc = "none"
    /\ ready /\ connOpen /\ stream = "live" /\ lpc = "read"
    /\ Len(log) >= 2
    /\ log[Len(log) - 1] = Reconnected /\ log[Len(log)] = Ready

\* ------------------------------------------------------------------ C24
\* C24: the frames delivered to a destination are delivered in the order in
\* which they were read: the frame being delivered is the last one read and
\* every frame the destination got before was read earlier; the delivery loop
\* of a subscription takes a frame only between two invocations of its
\* handler, so the handler sees initial result and pushes in that order.
C24_OneAtATime ==
    /\ dpc \in {"fanout", "idsend"} => dframe.n = nreads
    /\ \A r \in Deliveries : r.n <= nreads

C24_OrderStep ==
    Running' =>
        \A r \in BagToSet(delivered') :
            CopiesIn(r, delivered') > CopiesIn(r, delivered) =>
                /\ r.n = nreads
                /\ \A r0 \in Deliveries : r0.dest = r.dest => r0.n < r.n
                /\ r.dest.kind = "sub" =>
                      /\ lp[r.dest.idx] = "select"
                      /\ lp'[r.dest.idx] = "handler"

C24_DeliveredInReadOrder == []C24_OneAtATime /\ [][C24_OrderStep]_vars

\* The headers subscription got its initial result, read first, and then a
\* push, read second; its handler is running on the push.
C24_Witness ==
    /\ spc[1] = "active" /\ lp[1] = "handler"
    /\ \E r1, r2 \in Deliveries :
          /\ r1.dest = SubDest(1) /\ r1.n = 1
          /\ r1.frame = [id |-> subId[1], method |-> ""]
          /\ r2.dest = SubDest(1) /\ r2.n = 2
          /\ r2.frame.method = HeadersMethod

\* ------------------------------------------------------------------ C25
\* C25: once Close() has been invoked the keep-alive goroutine takes up no
\* further tick, allocates no id and writes no request.
C25_CloseStep ==
    (cdone /\ Running') =>
        /\ nticks' = nticks
        /\ kpc' = kpc

C25_NoKeepAliveAfterClose == [][C25_CloseStep]_vars

\* ------------------------------------------------------------------ C26
\* C26: a keep-alive tick allocates one id and attempts one send, and changes
\* nothing else, whether or not the send fails; the id gets no entry in the
\* table, and a reply that carries it reaches no pending call and no
\* subscription.
C26_KeepAliveIds ==
    {issued[i] : i \in 1..Len(issued)}
        \ ({callId[c] : c \in Calls} \cup {subId[s] : s \in SubIdx})

C26_Unmatched ==
    \A k \in C26_KeepAliveIds :
        /\ k \notin DOMAIN subs
        /\ dpc = "idsend" => dframe.id # k
        /\ \A r \in Deliveries : r.frame.method = "" => r.frame.id # k

C26_TickStep ==
    (Running' /\ kpc = "req" /\ kpc' # "req") =>
        /\ kpc' = "wait"
        /\ issued' = Append(issued, counter)
        /\ counter' = counter + 1
        /\ counter \in C26_KeepAliveIds'
        /\ UNCHANGED <<subs, mu, cdone, pingStopped, nticks, closeVars, callVars,
                       subVars, loopVars, dispVars, transVars>>

C26_KeepAliveIsInert == []C26_Unmatched /\ [][C26_TickStep]_vars

\* The keep-alive request took id 0 and the call took id 1; one frame has
\* been read and dropped, and the call still waits for its reply.
C26_Witness ==
    /\ nticks = 1 /\ kpc = "wait"
    /\ issued = <<0, 1>> /\ callId[1] = 1 /\ cpc[1] = "waiting"
    /\ DOMAIN subs = {1}
    /\ nreads = 1 /\ dpc = "select" /\ ~eof
    /\ delivered = EmptyBag

\* ------------------------------------------------------------------ C27
\* C27: a read error other than end-of-file is handed over as one event on
\* the error channel and changes nothing else: the transport stays ready on
\* its open connection, no state event is announced, no redial starts and
\* the reader goes back to reading the same stream.
C27_ErrorPending ==
    lpc = "err" => (ready /\ connOpen /\ rpc = "none")

C27_ErrorStep ==
    Running' =>
        /\ (lpc = "read" /\ lpc' = "err") =>
              UNCHANGED <<ready, connOpen, stream, rpc, ndials, ndrops, log>>
        /\ (lpc = "err" /\ lpc' # "err") =>
              /\ log' = Append(log, "error")
              /\ lpc' = "select"
              /\ UNCHANGED <<ready, connOpen, stream, rpc, ndials, ndrops>>
        /\ (lpc = "select" /\ Len(log) > 0 /\ log[Len(log)] = "error") =>
              /\ lpc' \in {"select", "read", "closed"}
              /\ log' = log

C27_ReadErrorIsSideChannel == []C27_ErrorPending /\ [][C27_ErrorStep]_vars

\* A read error was forwarded and then a line of the same stream; nothing was
\* dropped or redialed.
C27_Witness ==
    /\ ready /\ connOpen /\ stream = "live"
    /\ ndrops = 0 /\ ndials = 0
    /\ log = <<Ready, "error", "line">>

\* ------------------------------------------------------------------ C28
\* C28: a line that cannot be decoded is dropped: receiving it delivers
\* nothing and starts no delivery, leaves the table, the counter and every
\* caller and subscription as they were, and leaves the dispatch loop at its
\* select, ready for the next line.
C28_DropStep ==
    (Running' /\ nreads' # nreads /\ ~wire'.ok) =>
        /\ dpc' = "select"
        /\ UNCHANGED <<subs, counter, issued, mu, delivered, dframe, dtodo,
                       dtarget, callVars, subVars, loopVars>>

C28_OnlyDecoded ==
    /\ dpc \in {"fanout", "idsend"} => wire.ok
    /\ \A r \in Deliveries : r.n = nreads => wire.ok

C28_UndecodableDropped == []C28_OnlyDecoded /\ [][C28_DropStep]_vars

\* With a call waiting under id 0 and a subscription registered, the first
\* line received did not decode: it was dropped, and the dispatch loop can
\* receive the next one.
C28_Witness ==
    /\ cpc[1] = "waiting" /\ callId[1] = 0
    /\ spc[1] = "active" /\ subId[1] \in DOMAIN subs /\ lp[1] = "select"
    /\ nreads = 1 /\ ~wire.ok
    /\ dpc = "select" /\ mu = "free"
    /\ delivered = EmptyBag
    /\ ENABLED DispMessage

\* ------------------------------------------------------------------ C29
\* C29: removing a registration is idempotent.  An entry in the table has an
\* open channel and no two entries share one, so a removal never closes a
\* closed channel; a channel is closed in the very step in which its entry
\* leaves the table, and in no other; an id that has left the table never
\* comes back; removeSubscription on an absent id changes nothing.
C29_EntriesOpen ==
    /\ \A i \in DOMAIN subs : ~Closed(subs[i].dest)
    /\ \A i, j \in DOMAIN subs : subs[i].dest = subs[j].dest => i = j

C29_RemoveStep ==
    Running' =>
        /\ \A i \in DOMAIN subs \ DOMAIN subs' :
              /\ ~Closed(subs[i].dest)
              /\ IF subs[i].dest.kind = "call"
                 THEN resClosed'[subs[i].dest.idx]
                 ELSE msgClosed'[subs[i].dest.idx]
        /\ \A c \in Calls : (resClosed'[c] /\ ~resClosed[c]) =>
              \E i \in DOMAIN subs \ DOMAIN subs' : subs[i].dest = CallDest(c)
        /\ \A s \in SubIdx : (msgClosed'[s] /\ ~msgClosed[s]) =>
              \E i \in DOMAIN subs \ DOMAIN subs' : subs[i].dest = SubDest(s)
        /\ \A i \in DOMAIN subs' \ DOMAIN subs :
              \/ \E c \in Calls : cpc[c] = "hasId" /\ callId[c] = i
              \/ \E s \in SubIdx : spc[s] = "hasId" /\ subId[s] = i
        /\ \A c \in Calls :
              (cpc[c] = "unreg" /\ cpc'[c] = "returned"
                  /\ callId[c] \notin DOMAIN subs) =>
                  UNCHANGED <<subs, resClosed, msgClosed>>

C30_FailStep ==
    \A s \in SubIdx :
        SubFailClose(s) =>
            /\ panicked' = ""
            /\ spc'[s] = "failed"
            /\ sret'[s] \notin {"none", "nil"}
            /\ dataClosed'[s]
            /\ subId[s] \notin DOMAIN subs'
            /\ msgClosed'[s] /\ lp'[s] \in {"select", "exit"}

C30_FailedSubscribeCleansUp == [][C30_FailStep]_vars

\* ------------------------------------------------------------------ C31
\* C31: the table is read and written under the mutex only, so the accesses
\* exclude one another: while the range loop of the shutdown branch is
\* reading the table, no other goroutine writes it (the only changes are the
\* removals of the loop itself), and the runtime never finds a write of the
\* table racing with the loop.
C31_SweepStep ==
    dpc = "sweep" =>
        /\ panicked' # MapRace
        /\ (Running' /\ subs' # subs) => (cpc' = cpc /\ spc' = spc)

C31_TableUnderMutex == [][C31_SweepStep]_vars

\* ------------------------------------------------------------------ C32
\* C32: at most one reader loop runs for the transport.  The one goroutine of
\* listen() is either in its loop or, after end-of-file, inside reconnect();
\* while it is inside reconnect() or the redial goroutine exists, no reader
\* loop runs; and a reader loop starts only when none is running, in the step
\* in which the redial goroutine has announced Reconnected and ends.
C32_ReaderLoop == lpc \in {"ready", "select", "read", "msg", "err", "disc", "closed"}

C32_InReconnect == lpc \in {"close", "unready", "recon"} \/ rpc # "none"

C32_NoReaderInReconnect ==
    /\ ~(C32_InReconnect /\ C32_ReaderLoop)
    /\ rpc # "none" => lpc = "none"

C32_StartStep ==
    (~C32_ReaderLoop /\ C32_ReaderLoop') =>
        /\ lpc = "none" /\ lpc' = "ready"
        /\ rpc = "announce" /\ rpc' = "none"
        /\ log' = Append(log, Reconnected)

C32_SingleReader == []C32_NoReaderInReconnect /\ [][C32_StartStep]_vars

\* The first reader announced Ready and left at end-of-file; after the redial
\* the second reader announced Ready and is in its loop, alone.
C32_Witness ==
    /\ ndrops = 1 /\ rpc = "none" /\ lpc = "select"
    /\ Cardinality({i \in 1..Len(log) : log[i] = Ready}) = 2
    /\ \E i \in 1..Len(log) : log[i] = Reconnected

\* ------------------------------------------------------------------ C33
\* C33: a sendMessage that passes the readiness check does not write to a
\* stream that reconnect() has closed and that has not been replaced yet: a
\* send made in that window returns the unreachable-host error.
C33_ClosedByReconnect ==
    ~connOpen /\ (lpc \in {"unready", "recon"} \/ rpc = "tick")

C33_SendStep ==
    (lastSend' # lastSend /\ lastSend'.result # ErrUnreachableHost) =>
        ~C33_ClosedByReconnect

C33_SendAtomicWithReconnect == [][C33_SendStep]_vars

\* ------------------------------------------------------------------ C34
\* C34: at most one resumption attempt is in flight.  The step in which the
\* dispatch loop takes a Reconnected event while an attempt is polling leaves
\* one attempt in flight, the new one; an attempt is in flight exactly while
\* the task is somewhere between its start and its end; and with the session
\* shut down an attempt in flight can abort, in a step that ends it.
C34_AtMostOne ==
    /\ rtasks \in {0, 1}
    /\ rsm \in {"poll", "run", "register", "send"} => rtasks = 1
    /\ rsm \in {"none", "idle", "done", "aborted"} => rtasks = 0
    /\ (Running /\ cdone /\ rtasks > 0) => ENABLED ResumeAbort

C34_SupersedeStep ==
    /\ (rsm = "announce" /\ rsm' = "poll") => rtasks' = 1
    /\ (cdone /\ rtasks' < rtasks) => rtasks' = 0

C34_OneResumption == []C34_AtMostOne /\ [][C34_SupersedeStep]_vars

\* The stream dropped twice; the second Reconnected arrived while the first
\* attempt was polling, and the attempt that superseded it is polling now.
C34_Witness ==
    /\ ndrops = 2 /\ rsm = "poll" /\ rtasks = 1 /\ ~eof /\ ~cdone
    /\ \E s \in SubIdx : Active(s)

\* The session was shut down while an attempt was polling, and the attempt
\* has aborted.
C34_WitnessAbort == cdone /\ rsm = "aborted" /\ rtasks = 0 /\ ndrops >= 1

\* ------------------------------------------------------------------ C35
\* C35: the resumption registers each subscription again under a fresh id:
\* in the step that registers it, the id it had is out of the table, the new
\* id is one that req() has never handed out before, the entry under the new
\* id carries the method and the delivery destination of the subscription,
\* and the subscription itself (method, state, context, data channel) is as
\* before.  Once the resumption is complete, every active subscription has
\* exactly one entry, under its current id, and its data channel is open.
C35_RegisterStep ==
    (rsm = "register" /\ rsm' = "send") =>
        /\ subId[rcur] \notin DOMAIN subs'
        /\ \A i \in 1..Len(issued) : issued[i] # subId'[rcur]
        /\ subId'[rcur] \in DOMAIN subs'
        /\ subs'[subId'[rcur]] = [dest |-> SubDest(rcur), method |-> smethod[rcur]]
        /\ \A s \in SubIdx \ {rcur} : subId'[s] = subId[s]
        /\ UNCHANGED <<smethod, spc, ctxDone, dataClosed, sret>>

C35_OneEntryEach ==
    (rsm = "done" /\ ~cdone) =>
        \A s \in SubIdx :
            spc[s] = "active" =>
                /\ {i \in DOMAIN subs : subs[i].dest = SubDest(s)} = {subId[s]}
                /\ ~dataClosed[s]

C35_FreshIdSameSubscription == []C35_OneEntryEach /\ [][C35_RegisterStep]_vars

\* Two subscriptions had the ids 0 and 1 when the stream dropped; the poll
\* took id 2 and the resumption registered them again under 3 and 4.
C35_Witness ==
    /\ rsm = "done" /\ ~cdone /\ ndrops = 1
    /\ issued = <<0, 1, 2, 3, 4>>
    /\ DOMAIN subs = {3, 4}
    /\ \A s \in SubIdx : spc[s] = "active" /\ subId[s] \in {3, 4} /\ ~dataClosed[s]

\* ------------------------------------------------------------------ C36
\* C36: the dispatch loop is never in a send on a channel that is closed:
\* whenever it is sending a frame to a destination, by id or in the fan-out,
\* the channel of that destination is open.
C36_NoSendOnClosedChannel ==
    dpc \in {"fanout", "idsend"} => ~Closed(dtarget)

\* The case of the second reply: the first reply with the id of a call was
\* delivered to it, the second one found its entry still in the table, and
\* the call has unregistered, closing the channel the loop is sending on.
C36_SecondReplyCase ==
    /\ nreads = 2 /\ dpc = "idsend" /\ Closed(dtarget)
    /\ \E r \in Deliveries : r.dest = dtarget /\ r.n = 1 /\ r.frame.id = dframe.id

\* ------------------------------------------------------------------ C37
\* C37: a frame that arrives after the context of a subscription has been
\* canceled does not stall the dispatch loop.  The delivery loop of that
\* subscription has returned and will never receive again, so the dispatch
\* loop does not start a send to it: such a send would not complete, and in
\* the fan-out it would keep the mutex that req() and the registration of
\* every later call need.
C37_DispatchStep ==
    \A s \in SubIdx :
        (ctxDone[s] /\ lp[s] = "exit" /\ ~msgClosed[s]
            /\ dpc = "select" /\ dpc' \in {"fanout", "idsend"}) =>
                /\ dtarget' # SubDest(s)
                /\ \A i \in dtodo' : subs[i].dest # SubDest(s)

C37_CanceledDoesNotStall == [][C37_DispatchStep]_vars

\* ------------------------------------------------------------------ C38
\* C38: a disconnect and a reconnect by themselves touch neither the table
\* nor the calls.  The steps in which the stream ends, the redial installs
\* the new stream and Reconnected is received leave the table, the ids, the
\* channels and the position and result of every call as they were; with the
\* session open a call waiting for its reply is registered under its id with
\* its channel open, also while the stream is down; and a reply delivered to
\* a call after the reconnect is the one that carries the id of that call.
C38_TransportStep ==
    (eof' # eof \/ rsm' # rsm \/ ndrops' # ndrops) =>
        UNCHANGED <<subs, counter, cpc, callId, cret, resClosed>>

C38_ReplyStep ==
    \A c \in Calls :
        (ndrops > 0 /\ cpc[c] = "waiting" /\ cpc'[c] = "unreg" /\ ~resClosed[c]) =>
            /\ dpc = "idsend" /\ dtarget = CallDest(c)
            /\ cret'[c] = [resp |-> [id |-> callId[c], method |-> ""], err |-> "nil"]

C38_StaysRegistered ==
    \A c \in Calls :
        (cpc[c] = "waiting" /\ ~cdone) =>
            /\ callId[c] \in DOMAIN subs
            /\ subs[callId[c]].dest = CallDest(c)
            /\ ~resClosed[c]

C38_CallsSurviveReconnect ==
    []C38_StaysRegistered /\ [][C38_TransportStep /\ C38_ReplyStep]_vars

\* The stream ended with nothing read and a call waiting; after the redial
\* and the Reconnected event both calls got the reply with their own id from
\* the new stream.
C38_Witness ==
    /\ ndrops = 1 /\ rsm = "idle" /\ ~eof /\ ~cdone /\ nreads = 2
    /\ \A c \in Calls :
          /\ cpc[c] = "returned"
          /\ cret[c] = [resp |-> [id |-> callId[c], method |-> ""], err |-> "nil"]

\* ------------------------------------------------------------------ C39
\* C39: a line that decodes to a frame with neither a method nor an id is
\* dropped: receiving it starts no send to any call or subscription, not
\* even to the destination registered under id 0.
C39_IdlessStep ==
    (nreads' # nreads /\ Running'
        /\ wire'.ok /\ ~wire'.hasId /\ wire'.method = "") =>
            /\ dpc' = "select"
            /\ delivered' = delivered

C39_IdlessFrameDropped == [][C39_IdlessStep]_vars

====
